---- MODULE Spec2Model ----
(***************************************************************************)
(* Attendance-system server: the attendance ledger, the room/camera        *)
(* catalog, the roster (identities and profiles) and the capture handler,  *)
(* modelled from the services, controllers and Mongoose schemas.           *)
(*                                                                         *)
(* Collections are sets of documents; every handler is one action that    *)
(* reads its request from small input sets, runs the whole handler        *)
(* (service calls, compensating deletes, error mapping) and leaves the     *)
(* request in `req` and the HTTP response in `res`.                        *)
(***************************************************************************)
EXTENDS Integers, Sequences, FiniteSets, TLC

VARIABLES
  ledger,     \* AttendanceRecord collection
  users,      \* User collection (identities)
  teachers,   \* Teacher collection (profiles)
  students,   \* Student collection (profiles)
  classes,    \* Class collection
  subjects,   \* Subject collection
  rooms,      \* Room collection
  cameras,    \* Camera collection
  req,        \* the request being answered
  res,        \* the response sent for it
  oids,       \* number of ObjectIds handed out so far
  inflight,   \* per-request progress of concurrently running insertMany calls
  files       \* the uploads directory: student_pics and class_pics

vars == <<ledger, users, teachers, students, classes, subjects, rooms,
          cameras, req, res, oids, inflight, files>>

None == "none"     \* an absent string value

\* an absent or malformed ObjectId (falsy, not isValidObjectId)
NoId == 0

-----------------------------------------------------------------------------
(* Bounds                                                                  *)

MaxBatch == 2      \* longest attendanceList in a request
MaxSeed == 2       \* most records in the ledger when the server starts
MaxCams == 2       \* longest cameras list in an addRoom request

-----------------------------------------------------------------------------
(* Identifier domains                                                      *)

\* ObjectIds are handed out by one counter, so an id is never used twice.
\* The ids of the documents of the populated database (SeededRoster below):
ClassIds == {1}
SubjectIds == {2}
TeacherIds == {4, 6}
StudentIds == {8, 10}
RecordIds == 1..(MaxSeed + 2 * MaxBatch)

\* date strings of a request: a calendar day and a time of day
TodPerDay == 2
DateStrings == {[day |-> 0, tod |-> 0], [day |-> 0, tod |-> 1],
                [day |-> 1, tod |-> 0]}
NoDate == [day |-> 0 - 1, tod |-> 0]   \* the request carries no date
TimeLabels == {"9:00 AM"}

RECURSIVE SeqsUpTo(_, _)
SeqsUpTo(S, n) ==
  IF n = 0 THEN {<<>>}
  ELSE LET shorter == SeqsUpTo(S, n - 1)
       IN shorter \cup {Append(q, x) : q \in {p \in shorter : Len(p) = n - 1}, x \in S}

Range(q) == {q[i] : i \in 1..Len(q)}

-----------------------------------------------------------------------------
(* Attendance ledger: schema, unique index, insertMany                     *)

StatusEnum == {"Present", "Absent"}

\* new Date(date): the instant the date string denotes, time of day included
NewDate(date) == date.day * TodPerDay + date.tod

CalendarDay(instant) == instant \div TodPerDay

\* the paths attendanceRecordSchema declares
SchemaPaths == {"student", "subject", "teacher", "date", "time", "status"}

RequiredPaths == {"student", "subject", "teacher", "date", "status"}

\* new AttendanceRecord(obj) under the default strict schema: paths the
\* schema does not declare are dropped, declared paths not given stay unset
NewAttendanceRecord(obj) ==
  [p \in SchemaPaths \cap DOMAIN obj |-> obj[p]]

\* document validation: required paths set, status within the enum
Validates(doc) ==
  /\ RequiredPaths \subseteq DOMAIN doc
  /\ doc.status \in StatusEnum

\* the unique compound index { student, subject, date }
IndexKey(doc) == <<doc.student, doc.subject, doc.date>>

UniqueIndex(coll) ==
  \A a, b \in coll : IndexKey(a) = IndexKey(b) => a = b

FreshRecordId(coll) ==
  CHOOSE i \in RecordIds :
    /\ i \notin {r.id : r \in coll}
    /\ \A j \in RecordIds : j < i => j \in {r.id : r \in coll}

HasFreshRecordId(coll) == \E i \in RecordIds : i \notin {r.id : r \in coll}

\* one document of an unordered insertMany reaching the collection: a
\* duplicate key is a write error, anything else is stored
InsertOne(coll, doc) ==
  IF \E r \in coll : IndexKey(r) = IndexKey(doc)
  THEN [coll |-> coll, dup |-> TRUE]
  ELSE [coll |-> coll \cup
                 {[p \in DOMAIN doc \cup {"id"} |->
                     IF p = "id" THEN FreshRecordId(coll) ELSE doc[p]]},
        dup |-> FALSE]

\* Model.insertMany(docs, { ordered: false }): documents failing validation
\* are skipped, the others are written one by one, write errors collected
RECURSIVE InsertManyFrom(_, _, _, _, _)
InsertManyFrom(coll, docs, i, dup, n) ==
  IF i > Len(docs) THEN [coll |-> coll, dup |-> dup, inserted |-> n]
  ELSE IF ~Validates(docs[i]) THEN InsertManyFrom(coll, docs, i + 1, dup, n)
  ELSE LET w == InsertOne(coll, docs[i])
       IN InsertManyFrom(w.coll, docs, i + 1, dup \/ w.dup,
                         IF w.dup THEN n ELSE n + 1)

InsertMany(coll, docs) == InsertManyFrom(coll, docs, 1, FALSE, 0)

\* step 1 of saveAttendanceRecords: the object built for each list item
recordsToInsert(attendanceList, subjectId, teacherId, date, time) ==
  [i \in 1..Len(attendanceList) |->
     NewAttendanceRecord(
       [student |-> attendanceList[i].id, subject |-> subjectId,
        markedBy |-> teacherId, date |-> NewDate(date), time |-> time,
        status |-> attendanceList[i].status])]

MsgAlreadyMarked ==
  "Attendance has already been marked for this subject on this date."

\* saveAttendanceRecords: the collection after the call and its outcome
saveAttendanceRecords(coll, attendanceList, subjectId, teacherId, date, time) ==
  LET docs == recordsToInsert(attendanceList, subjectId, teacherId, date, time)
      w == InsertMany(coll, docs)
  IN IF Len(docs) = 0
     THEN [coll |-> coll, status |-> 500,
           message |-> "No attendance records to save.", body |-> 0]
     ELSE IF w.dup
     THEN [coll |-> w.coll, status |-> 409, message |-> MsgAlreadyMarked,
           body |-> 0]
     ELSE [coll |-> w.coll, status |-> 201,
           message |-> "Attendance marked successfully", body |-> w.inserted]

MsgNotFoundOrNoPermission ==
  "Record not found or you do not have permission to edit it."

\* variant: the filter carries the record id only
UpdateFilter_IdOnly(coll, recordId, teacherId) ==
  {r \in coll : r.id = recordId}

\* the documents matched by the filter { _id: recordId, markedBy: teacherId }:
\* the condition on markedBy is sent to the database as it stands and holds
\* of a stored document only if the document has that field with that value
UpdateFilter(coll, recordId, teacherId) ==
  {r \in coll : /\ r.id = recordId
                /\ "markedBy" \in DOMAIN r
                /\ r.markedBy = teacherId}

\* variant: a record of another teacher is answered 403 instead of 404
updateAttendanceRecordService_Leaky(coll, recordId, newStatus, teacherId) ==
  IF recordId = NoId
  THEN [coll |-> coll, status |-> 500,
        message |-> "An error occurred while updating the record."]
  ELSE LET hit == UpdateFilter(coll, recordId, teacherId)
       IN IF hit = {} /\ \E r \in coll : r.id = recordId
          THEN [coll |-> coll, status |-> 403,
                message |-> "You do not have permission to edit it."]
          ELSE IF hit = {}
          THEN [coll |-> coll, status |-> 404,
                message |-> MsgNotFoundOrNoPermission]
          ELSE [coll |-> (coll \ hit) \cup
                         {[r EXCEPT !.status = newStatus] : r \in hit},
                status |-> 200, message |-> "Record updated successfully"]

\* updateAttendanceRecord (service): findOneAndUpdate with $set status
updateAttendanceRecordService(coll, recordId, newStatus, teacherId) ==
  IF recordId = NoId
  THEN [coll |-> coll, status |-> 500,
        message |-> "An error occurred while updating the record."]
  ELSE LET hit == UpdateFilter(coll, recordId, teacherId)
       IN IF hit = {}
          THEN [coll |-> coll, status |-> 404,
                message |-> MsgNotFoundOrNoPermission]
          ELSE [coll |-> (coll \ hit) \cup
                         {[r EXCEPT !.status = newStatus] : r \in hit},
                status |-> 200, message |-> "Record updated successfully"]

-----------------------------------------------------------------------------
(* The database the server is started on                                   *)

\* documents of the attendance collection as the schema declares them
SeedRecord(i, k, t) ==
  [id |-> i, student |-> k[1], subject |-> k[2], teacher |-> t,
   date |-> k[3], time |-> "9:00 AM", status |-> "Present"]

SeedKeys ==
  {<<s, j, NewDate(d)>> : s \in StudentIds, j \in SubjectIds, d \in DateStrings}

\* records are numbered in the order of their keys
KeyRank(k) == (k[1] * 10 + k[2]) * 10 + k[3]

RECURSIVE LedgersOfSize(_)
LedgersOfSize(n) ==
  IF n = 0 THEN {{}}
  ELSE UNION {{L \cup {SeedRecord(n, k, t)} :
                 k \in {x \in SeedKeys :
                          \A r \in L : KeyRank(IndexKey(r)) < KeyRank(x)},
                 t \in TeacherIds} :
              L \in LedgersOfSize(n - 1)}

\* collections of at most n stored records that satisfy the unique index
SeedLedgers(n) ==
  {L \in UNION {LedgersOfSize(m) : m \in 0..n} : UniqueIndex(L)}

ClassCodes == {"C1"}
SubjectCodes == {"S1"}

\* the database after addClass, addSubject, two addTeacher and two
\* createNewStudent calls
SeededClasses == {[id |-> 1, name |-> "c1", classCode |-> "C1", semester |-> 1]}
SeededSubjects == {[id |-> 2, subjectCode |-> "S1", class |-> 1]}
SeededUsers ==
  {[id |-> 3, username |-> "ta", email |-> "ta@x", password |-> <<"hash", "pa">>,
    role |-> "Teacher", profileId |-> 4],
   [id |-> 5, username |-> "tb", email |-> "tb@x", password |-> <<"hash", "pb">>,
    role |-> "Teacher", profileId |-> 6],
   [id |-> 7, username |-> "sa", email |-> "sa@x", password |-> <<"hash", "pc">>,
    role |-> "Student", profileId |-> 8],
   [id |-> 9, username |-> "sb", email |-> "sb@x", password |-> <<"hash", "pd">>,
    role |-> "Student", profileId |-> 10]}
SeededTeachers ==
  {[id |-> 4, user |-> 3, teacherID |-> "T1", name |-> "n", subjects |-> {2},
    assignedClasses |-> {1}],
   [id |-> 6, user |-> 5, teacherID |-> "T2", name |-> "n", subjects |-> {2},
    assignedClasses |-> {1}]}
SeededStudents ==
  {[id |-> 8, user |-> 7, rollNo |-> "R1", class |-> 1, faceEmbeddings |-> <<1>>,
    name |-> "n1"],
   [id |-> 10, user |-> 9, rollNo |-> "R2", class |-> 1, faceEmbeddings |-> <<>>,
    name |-> "n2"]}
SeededFiles == [student_pics |-> {"R1", "R2"}, class_pics |-> {}]
SeededOids == Cardinality(SeededClasses) + Cardinality(SeededSubjects)
              + Cardinality(SeededUsers) + Cardinality(SeededTeachers)
              + Cardinality(SeededStudents)

Idle == [op |-> "none"]

-----------------------------------------------------------------------------
(* Teacher router: markAttendance and updateAttendanceRecord               *)

AttendanceItems == [id : StudentIds, status : StatusEnum]

\* attendance lists as the client sends them: at most one item per student
AttendanceLists ==
  {l \in SeqsUpTo(AttendanceItems, MaxBatch) :
     \A i, j \in 1..Len(l) : i < j => l[i].id < l[j].id}

\* the server takes the next request once the previous one is answered
Receive(r) == req = Idle /\ req' = r

NextRequest ==
  /\ req # Idle
  /\ req' = Idle
  /\ res' = Idle
  /\ UNCHANGED <<ledger, users, teachers, students, classes, subjects, rooms,
                 cameras, oids, inflight, files>>

\* isValidObjectId
isValidObjectId(id) == id # NoId

\* markAttendance (controller): validation, then saveAttendanceRecords; the
\* error handler answers with the status the controller set
markAttendance(attendanceList, subjectId, teacherId, date, time) ==
  IF teacherId = NoId
  THEN [coll |-> ledger, status |-> 401, body |-> 0,
        message |-> "Not authorized, no teacher profile associated with this user."]
  ELSE IF subjectId = NoId \/ date = NoDate \/ time = None
  THEN [coll |-> ledger, status |-> 400, body |-> 0,
        message |-> "Missing required fields: attendanceList, subjectId, date, time"]
  ELSE IF \/ Len(attendanceList) = 0
          \/ ~isValidObjectId(attendanceList[1].id)
          \/ attendanceList[1].status \notin {"Present", "Absent"}
  THEN [coll |-> ledger, status |-> 400, body |-> 0,
        message |-> "Attendance list must be a non-empty array of { _id, status } objects."]
  ELSE LET saved == saveAttendanceRecords(ledger, attendanceList, subjectId,
                                          teacherId, date, time)
       IN IF saved.status = 201 THEN saved
          ELSE [saved EXCEPT !.status = saved.status]

MarkAttendance ==
  \E attendanceList \in AttendanceLists,
     subjectId \in SubjectIds \cup {NoId},
     teacherId \in {u.profileId : u \in {v \in users : v.role = "Teacher"}},
     date \in DateStrings \cup {NoDate},
     time \in TimeLabels \cup {None} :
    LET out == markAttendance(attendanceList, subjectId, teacherId, date, time)
    IN /\ Receive([op |-> "markAttendance", attendanceList |-> attendanceList,
                   subjectId |-> subjectId, teacherId |-> teacherId,
                   date |-> date, time |-> time])
       /\ (IF subjectId = NoId THEN 1 ELSE 0) + (IF date = NoDate THEN 1 ELSE 0)
            + (IF time = None THEN 1 ELSE 0) <= 1
       /\ (subjectId = NoId \/ date = NoDate \/ time = None)
            => Len(attendanceList) = 0
       /\ Cardinality(ledger) + Len(attendanceList) <= Cardinality(RecordIds)
       /\ ledger' = out.coll
       /\ res' = [status |-> out.status, message |-> out.message,
                  body |-> out.body]
       /\ UNCHANGED <<users, teachers, students, classes, subjects, rooms,
                      cameras, oids, inflight, files>>

\* updateAttendanceRecord (controller)
updateAttendanceRecord(recordId, status, teacherId) ==
  IF status \notin {"Present", "Absent"}
  THEN [coll |-> ledger, status |-> 400,
        message |-> "Invalid status. Must be \"Present\" or \"Absent\"."]
  ELSE updateAttendanceRecordService(ledger, recordId, status, teacherId)

UpdateAttendanceRecord ==
  \E recordId \in {r.id : r \in ledger} \cup {FreshRecordId(ledger), NoId},
     status \in StatusEnum \cup {None},
     teacherId \in {u.profileId : u \in {v \in users : v.role = "Teacher"}} :
    LET out == updateAttendanceRecord(recordId, status, teacherId)
    IN /\ Receive([op |-> "updateAttendanceRecord", recordId |-> recordId,
                   status |-> status, teacherId |-> teacherId])
       /\ ledger' = out.coll
       /\ res' = [status |-> out.status, message |-> out.message, body |-> 0]
       /\ UNCHANGED <<users, teachers, students, classes, subjects, rooms,
                      cameras, oids, inflight, files>>

-----------------------------------------------------------------------------
(* Admin router: deleting teachers, students, subjects and classes.  A     *)
(* database write of a handler may fail (`fail` names the write, 0 for     *)
(* none); the handler then takes its error path.                           *)

Respond(status, message) == [status |-> status, message |-> message, body |-> 0]

\* variant: a missing user account is an error of the delete
DeleteTeacher_UserRequired ==
  \E id \in {t.id : t \in teachers} \cup {NoId, oids + 1}, fail \in 0..2 :
    LET found == {t \in teachers : t.id = id}
        teacher == CHOOSE t \in found : TRUE
    IN /\ Receive([op |-> "deleteTeacher", id |-> id, fail |-> fail])
       /\ IF ~isValidObjectId(id)
          THEN /\ res' = Respond(400, "Invalid teacher ID format.")
               /\ UNCHANGED <<teachers, users>>
          ELSE IF found = {}
          THEN /\ res' = Respond(404, "Teacher not found.")
               /\ UNCHANGED <<teachers, users>>
          ELSE IF fail = 1
          THEN /\ res' = Respond(500, "Server error while deleting teacher.")
               /\ UNCHANGED <<teachers, users>>
          ELSE IF fail = 2 \/ \A u \in users : u.id # teacher.user
          THEN /\ res' = Respond(500, "Server error while deleting teacher.")
               /\ teachers' = teachers \ found
               /\ UNCHANGED users
          ELSE /\ res' = Respond(200, "Teacher and associated user deleted successfully.")
               /\ teachers' = teachers \ found
               /\ users' = {u \in users : u.id # teacher.user}
       /\ UNCHANGED <<ledger, students, classes, subjects, rooms, cameras,
                      oids, inflight, files>>

\* deleteTeacher (controller and service)
DeleteTeacher ==
  \E id \in {t.id : t \in teachers} \cup {NoId, oids + 1}, fail \in 0..2 :
    LET found == {t \in teachers : t.id = id}
        teacher == CHOOSE t \in found : TRUE
    IN /\ Receive([op |-> "deleteTeacher", id |-> id, fail |-> fail])
       /\ IF ~isValidObjectId(id)
          THEN /\ res' = Respond(400, "Invalid teacher ID format.")
               /\ UNCHANGED <<teachers, users>>
          ELSE IF found = {}
          THEN /\ res' = Respond(404, "Teacher not found.")
               /\ UNCHANGED <<teachers, users>>
          ELSE IF fail = 1
          THEN /\ res' = Respond(500, "Server error while deleting teacher.")
               /\ UNCHANGED <<teachers, users>>
          ELSE IF fail = 2
          THEN /\ res' = Respond(500, "Server error while deleting teacher.")
               /\ teachers' = teachers \ found
               /\ UNCHANGED users
          ELSE /\ res' = Respond(200, "Teacher and associated user deleted successfully.")
               /\ teachers' = teachers \ found
               /\ users' = {u \in users : u.id # teacher.user}
       /\ UNCHANGED <<ledger, students, classes, subjects, rooms, cameras,
                      oids, inflight, files>>

\* deleteStudent (controller) and deleteStudentById (service): the two
\* deletes run in parallel, each may fail on its own; then the image file
\* named after the rollNo is looked up and removed ("file": that step fails)
DeleteStudentFailures == {"none", "user", "student", "both", "file"}

\* variant: the student's attendance records are deleted with the student
DeleteStudentById_Cascade ==
  \E studentId \in {x.id : x \in students} \cup {NoId, oids + 1},
     fail \in DeleteStudentFailures :
    LET found == {x \in students : x.id = studentId}
        student == CHOOSE x \in found : TRUE
    IN /\ Receive([op |-> "deleteStudent", id |-> studentId, fail |-> fail])
       /\ IF ~isValidObjectId(studentId)
          THEN /\ res' = Respond(500, "Could not delete student: Cast to ObjectId failed")
               /\ UNCHANGED <<students, users, ledger, files>>
          ELSE IF found = {}
          THEN /\ res' = Respond(404, "Could not delete student: Student not found.")
               /\ UNCHANGED <<students, users, ledger, files>>
          ELSE /\ users' = IF fail \in {"user", "both"} THEN users
                           ELSE {u \in users : u.id # student.user}
               /\ students' = IF fail \in {"student", "both"} THEN students
                              ELSE students \ found
               /\ ledger' = {r \in ledger : r.student # studentId}
               /\ files' = IF fail = "none"
                           THEN [files EXCEPT !.student_pics = @ \ {student.rollNo}]
                           ELSE files
               /\ res' = IF fail = "none"
                         THEN Respond(200, "Student deleted successfully.")
                         ELSE Respond(500, "Could not delete student: Deletion failed")
       /\ UNCHANGED <<teachers, classes, subjects, rooms, cameras, oids, inflight>>

DeleteStudentById ==
  \E studentId \in {x.id : x \in students} \cup {NoId, oids + 1},
     fail \in DeleteStudentFailures :
    LET found == {x \in students : x.id = studentId}
        student == CHOOSE x \in found : TRUE
    IN /\ Receive([op |-> "deleteStudent", id |-> studentId, fail |-> fail])
       /\ IF ~isValidObjectId(studentId)
          THEN /\ res' = Respond(500, "Could not delete student: Cast to ObjectId failed")
               /\ UNCHANGED <<students, users, files>>
          ELSE IF found = {}
          THEN /\ res' = Respond(404, "Could not delete student: Student not found.")
               /\ UNCHANGED <<students, users, files>>
          ELSE /\ users' = IF fail \in {"user", "both"} THEN users
                           ELSE {u \in users : u.id # student.user}
               /\ students' = IF fail \in {"student", "both"} THEN students
                              ELSE students \ found
               /\ files' = IF fail = "none"
                           THEN [files EXCEPT !.student_pics = @ \ {student.rollNo}]
                           ELSE files
               /\ res' = IF fail = "none"
                         THEN Respond(200, "Student deleted successfully.")
                         ELSE Respond(500, "Could not delete student: Deletion failed")
       /\ UNCHANGED <<ledger, teachers, classes, subjects, rooms, cameras,
                      oids, inflight>>

\* deleteSubject (controller and service)
DeleteSubject ==
  \E id \in {x.id : x \in subjects} \cup {NoId, oids + 1}, fail \in 0..1 :
    LET found == {x \in subjects : x.id = id}
    IN /\ Receive([op |-> "deleteSubject", id |-> id, fail |-> fail])
       /\ IF ~isValidObjectId(id)
          THEN res' = Respond(400, "Invalid subject ID format.") /\ UNCHANGED subjects
          ELSE IF found = {}
          THEN res' = Respond(404, "Subject not found.") /\ UNCHANGED subjects
          ELSE IF fail = 1
          THEN res' = Respond(500, "Server error while deleting subject.")
               /\ UNCHANGED subjects
          ELSE res' = Respond(200, "Subject deleted successfully.")
               /\ subjects' = subjects \ found
       /\ UNCHANGED <<ledger, users, teachers, students, classes, rooms,
                      cameras, oids, inflight, files>>

\* variant: the class is deleted whatever references it
DeleteClass_Force ==
  \E id \in {x.id : x \in classes} \cup {NoId, oids + 1}, fail \in 0..1 :
    LET found == {x \in classes : x.id = id}
        classToDelete == CHOOSE x \in found : TRUE
        subjectCount == Cardinality({x \in subjects : x.class = id})
    IN /\ Receive([op |-> "deleteClass", id |-> id, fail |-> fail])
       /\ IF ~isValidObjectId(id)
          THEN res' = Respond(400, "Invalid class ID format.") /\ UNCHANGED classes
          ELSE IF found = {}
          THEN res' = Respond(404, "Class not found.") /\ UNCHANGED classes
          ELSE IF subjectCount > Cardinality(subjects)
          THEN res' = [status |-> 400,
                       message |-> <<"Cannot delete class", classToDelete.name,
                                     "It is referenced by", subjectCount,
                                     "subject(s)">>,
                       body |-> 0]
               /\ UNCHANGED classes
          ELSE IF fail = 1
          THEN res' = Respond(500, "Server error while deleting class.")
               /\ UNCHANGED classes
          ELSE res' = Respond(200, "Class deleted successfully.")
               /\ classes' = classes \ found
       /\ UNCHANGED <<ledger, users, teachers, students, subjects, rooms,
                      cameras, oids, inflight, files>>

\* deleteClass (controller and service): blocked while subjects reference it
DeleteClass ==
  \E id \in {x.id : x \in classes} \cup {NoId, oids + 1}, fail \in 0..1 :
    LET found == {x \in classes : x.id = id}
        classToDelete == CHOOSE x \in found : TRUE
        subjectCount == Cardinality({x \in subjects : x.class = id})
    IN /\ Receive([op |-> "deleteClass", id |-> id, fail |-> fail])
       /\ IF ~isValidObjectId(id)
          THEN res' = Respond(400, "Invalid class ID format.") /\ UNCHANGED classes
          ELSE IF found = {}
          THEN res' = Respond(404, "Class not found.") /\ UNCHANGED classes
          ELSE IF subjectCount > 0
          THEN res' = [status |-> 400,
                       message |-> <<"Cannot delete class", classToDelete.name,
                                     "It is referenced by", subjectCount,
                                     "subject(s)">>,
                       body |-> 0]
               /\ UNCHANGED classes
          ELSE IF fail = 1
          THEN res' = Respond(500, "Server error while deleting class.")
               /\ UNCHANGED classes
          ELSE res' = Respond(200, "Class deleted successfully.")
               /\ classes' = classes \ found
       /\ UNCHANGED <<ledger, users, teachers, students, subjects, rooms,
                      cameras, oids, inflight, files>>

-----------------------------------------------------------------------------
(* Specification of the ledger under sequential requests                   *)

InitLedger ==
  /\ files = SeededFiles
  /\ ledger \in SeedLedgers(MaxSeed)
  /\ users = SeededUsers
  /\ teachers = SeededTeachers
  /\ students = SeededStudents
  /\ classes = SeededClasses
  /\ subjects = SeededSubjects
  /\ rooms = {}
  /\ cameras = {}
  /\ oids = SeededOids
  /\ req = Idle
  /\ res = Idle
  /\ inflight = <<>>

NextLedger == MarkAttendance \/ UpdateAttendanceRecord \/ NextRequest

SpecLedger == InitLedger /\ [][NextLedger]_vars

-----------------------------------------------------------------------------
(* Specification of the ledger while the roster and catalog shrink         *)

MaxKept == 1       \* most records in the ledger when this specification starts

InitRetention ==
  /\ files = [SeededFiles EXCEPT !.student_pics = {"R1"}]
  /\ ledger \in SeedLedgers(MaxKept)
  /\ users = {u \in SeededUsers : u.id \in {3, 7}}
  /\ teachers = {t \in SeededTeachers : t.id = 4}
  /\ students = {x \in SeededStudents : x.id = 8}
  /\ classes = SeededClasses
  /\ subjects = SeededSubjects
  /\ rooms = {}
  /\ cameras = {}
  /\ oids = SeededOids
  /\ req = Idle
  /\ res = Idle
  /\ inflight = <<>>

NextRetention ==
  \/ MarkAttendance
  \/ UpdateAttendanceRecord
  \/ DeleteTeacher
  \/ DeleteStudentById
  \/ DeleteSubject
  \/ DeleteClass
  \/ NextRequest

SpecRetention == InitRetention /\ [][NextRetention]_vars

-----------------------------------------------------------------------------
(* Room and camera catalog: addRoom with its manual rollback, deleteRoom   *)

MaxOids == 6       \* ObjectIds the catalog specification hands out at most

RoomNames == {"r1", "r2"}
\* a camera object of a request; "" is a field that is missing or empty
CameraData ==
  {[cameraId |-> "k1", cameraAccessLink |-> "l1/video"],
   [cameraId |-> "k2", cameraAccessLink |-> "l2/video"],
   [cameraId |-> "k1", cameraAccessLink |-> "l2/video"],
   [cameraId |-> "", cameraAccessLink |-> "l1/video"],
   [cameraId |-> "k2", cameraAccessLink |-> ""]}

MsgInvalidCamera ==
  "Invalid camera data: \"cameraId\" and \"cameraAccessLink\" are required."

\* Camera.findOne({ $or: [{ cameraId }, { cameraAccessLink }] })
ExistingCams(cams, camData) ==
  {c \in cams : \/ c.cameraId = camData.cameraId
                \/ c.cameraAccessLink = camData.cameraAccessLink}

\* the message thrown for the camera findOne returned
MsgCameraExists(existingCam, camData) ==
  IF existingCam.cameraId = camData.cameraId
  THEN "A camera with this cameraId already exists."
  ELSE "A camera with this cameraAccessLink already exists."

MsgRoomExists == "A room with this name already exists."

\* the loop of addRoom over the submitted cameras, from position i on:
\* the cameras collection, the ids of the cameras created, the error thrown
RECURSIVE createCameras(_, _, _, _, _, _)
createCameras(cams, list, i, roomId, createdCameraIds, nextId) ==
  IF i > Len(list)
  THEN [cameras |-> cams, createdCameraIds |-> createdCameraIds,
        errors |-> {}]
  ELSE LET camData == list[i]
       IN IF camData.cameraId = "" \/ camData.cameraAccessLink = ""
          THEN [cameras |-> cams, createdCameraIds |-> createdCameraIds,
                errors |-> {MsgInvalidCamera}]
          ELSE IF ExistingCams(cams, camData) # {}
          THEN [cameras |-> cams, createdCameraIds |-> createdCameraIds,
                errors |-> {MsgCameraExists(c, camData) :
                            c \in ExistingCams(cams, camData)}]
          ELSE createCameras(
                 cams \cup {[id |-> nextId, cameraId |-> camData.cameraId,
                             cameraAccessLink |-> camData.cameraAccessLink,
                             room |-> roomId]},
                 list, i + 1, roomId, createdCameraIds \cup {nextId},
                 nextId + 1)

\* variant: the rollback deletes the room and leaves the cameras created
addRoomService_KeepsCameras(rs, cams, roomData, nextId) ==
  IF \E r \in rs : r.name = roomData.name
  THEN [rooms |-> rs, cameras |-> cams, errors |-> {MsgRoomExists},
        roomId |-> nextId, used |-> 1]
  ELSE LET savedRoom == [id |-> nextId, name |-> roomData.name,
                         description |-> roomData.description]
           loop == createCameras(cams, roomData.cameras, 1, savedRoom.id, {},
                                 nextId + 1)
           used == 1 + Cardinality(loop.createdCameraIds)
       IN IF loop.errors = {}
          THEN [rooms |-> rs \cup {savedRoom}, cameras |-> loop.cameras,
                errors |-> {}, roomId |-> savedRoom.id, used |-> used]
          ELSE [rooms |-> {r \in rs \cup {savedRoom} : r.id # savedRoom.id},
                cameras |-> loop.cameras,
                errors |-> loop.errors, roomId |-> savedRoom.id, used |-> used]

\* addRoom (service): duplicate-name check, room save, camera loop; on any
\* error the cameras created and the room saved are deleted and the error
\* is thrown again
addRoomService(rs, cams, roomData, nextId) ==
  IF \E r \in rs : r.name = roomData.name
  THEN [rooms |-> rs, cameras |-> cams, errors |-> {MsgRoomExists},
        roomId |-> nextId, used |-> 1]
  ELSE LET savedRoom == [id |-> nextId, name |-> roomData.name,
                         description |-> roomData.description]
           loop == createCameras(cams, roomData.cameras, 1, savedRoom.id, {},
                                 nextId + 1)
           used == 1 + Cardinality(loop.createdCameraIds)
       IN IF loop.errors = {}
          THEN [rooms |-> rs \cup {savedRoom}, cameras |-> loop.cameras,
                errors |-> {}, roomId |-> savedRoom.id, used |-> used]
          ELSE [rooms |-> {r \in rs \cup {savedRoom} : r.id # savedRoom.id},
                cameras |-> {c \in loop.cameras :
                               c.id \notin loop.createdCameraIds},
                errors |-> loop.errors, roomId |-> savedRoom.id, used |-> used]

\* the status the addRoom controller gives an error of the service
addRoomStatus(message) ==
  IF message \in {MsgRoomExists,
                  "A camera with this cameraId already exists.",
                  "A camera with this cameraAccessLink already exists."}
  THEN 409
  ELSE IF message = MsgInvalidCamera THEN 400
  ELSE 500

\* addRoom (controller and service)
AddRoom ==
  \E name \in RoomNames \cup {""}, list \in SeqsUpTo(CameraData, MaxCams) :
    LET roomData == [name |-> name, description |-> "d", cameras |-> list]
        out == addRoomService(rooms, cameras, roomData, oids + 1)
    IN /\ Receive([op |-> "addRoom", name |-> name, cameras |-> list])
       /\ oids + 1 + Len(list) <= MaxOids
       /\ IF name = ""
          THEN /\ res' = Respond(400, "Missing required field: name.")
               /\ UNCHANGED <<rooms, cameras, oids>>
          ELSE /\ rooms' = out.rooms
               /\ cameras' = out.cameras
               /\ oids' = oids + out.used
               /\ IF out.errors = {}
                  THEN res' = [status |-> 201,
                               message |-> "Room added successfully",
                               body |-> out.roomId]
                  ELSE \E e \in out.errors :
                         res' = IF addRoomStatus(e) = 500
                                THEN Respond(500, "Server error while adding room.")
                                ELSE Respond(addRoomStatus(e), e)
       /\ UNCHANGED <<ledger, users, teachers, students, classes, subjects,
                      inflight, files>>

\* variant: the room is deleted before its cameras
DeleteRoom_RoomFirst ==
  \E id \in {r.id : r \in rooms} \cup {NoId, oids + 1}, fail \in 0..2 :
    LET found == {r \in rooms : r.id = id}
    IN /\ Receive([op |-> "deleteRoom", id |-> id, fail |-> fail])
       /\ IF ~isValidObjectId(id)
          THEN /\ res' = Respond(400, "Invalid room ID format.")
               /\ UNCHANGED <<rooms, cameras>>
          ELSE IF found = {}
          THEN /\ res' = Respond(404, "Room not found.")
               /\ UNCHANGED <<rooms, cameras>>
          ELSE IF fail = 1
          THEN /\ res' = Respond(500, "Server error while deleting room.")
               /\ UNCHANGED <<rooms, cameras>>
          ELSE IF fail = 2
          THEN /\ res' = Respond(500, "Server error while deleting room.")
               /\ rooms' = rooms \ found
               /\ UNCHANGED cameras
          ELSE /\ res' = Respond(200, "Room and all associated cameras deleted successfully.")
               /\ cameras' = {c \in cameras : c.room # id}
               /\ rooms' = rooms \ found
       /\ UNCHANGED <<ledger, users, teachers, students, classes, subjects,
                      oids, inflight, files>>

\* deleteRoom (controller and service): the cameras of the room, then the room
DeleteRoom ==
  \E id \in {r.id : r \in rooms} \cup {NoId, oids + 1}, fail \in 0..2 :
    LET found == {r \in rooms : r.id = id}
    IN /\ Receive([op |-> "deleteRoom", id |-> id, fail |-> fail])
       /\ IF ~isValidObjectId(id)
          THEN /\ res' = Respond(400, "Invalid room ID format.")
               /\ UNCHANGED <<rooms, cameras>>
          ELSE IF found = {}
          THEN /\ res' = Respond(404, "Room not found.")
               /\ UNCHANGED <<rooms, cameras>>
          ELSE IF fail = 1
          THEN /\ res' = Respond(500, "Server error while deleting room.")
               /\ UNCHANGED <<rooms, cameras>>
          ELSE IF fail = 2
          THEN /\ res' = Respond(500, "Server error while deleting room.")
               /\ cameras' = {c \in cameras : c.room # id}
               /\ UNCHANGED rooms
          ELSE /\ res' = Respond(200, "Room and all associated cameras deleted successfully.")
               /\ cameras' = {c \in cameras : c.room # id}
               /\ rooms' = rooms \ found
       /\ UNCHANGED <<ledger, users, teachers, students, classes, subjects,
                      oids, inflight, files>>

\* the catalog of a database that holds nothing yet
InitRoom ==
  /\ files = [student_pics |-> {}, class_pics |-> {}]
  /\ ledger = {}
  /\ users = {}
  /\ teachers = {}
  /\ students = {}
  /\ classes = {}
  /\ subjects = {}
  /\ rooms = {}
  /\ cameras = {}
  /\ oids = 0
  /\ req = Idle
  /\ res = Idle
  /\ inflight = <<>>

NextRoom == AddRoom \/ DeleteRoom \/ NextRequest

SpecRoom == InitRoom /\ [][NextRoom]_vars

-----------------------------------------------------------------------------
(* Capture: checkAttendance takes a snapshot of the room, asks the         *)
(* recognizer which students are on it and proposes an attendance list     *)

MaxRecognized == 2   \* longest recognized_usns array the recognizer returns

\* roll numbers the recognizer may name; "R9" is no student's
Usns == {"R1", "R2", "R9"}

\* fetching the snapshot: saved, camera unreachable, file not written
SnapshotOutcomes == {"saved", "unreachable", "writeError"}

\* the recognizer: answered, answered with an error, not reachable
MlOutcomes == {"ok", "failed", "unreachable"}

\* streamUrl.includes('/video')
IncludesVideo(link) == link \in {"l1/video", "l2/video"}

\* documents in natural (insertion) order
RECURSIVE InsertionOrder(_)
InsertionOrder(S) ==
  IF S = {} THEN <<>>
  ELSE LET first == CHOOSE x \in S : \A y \in S : x.id <= y.id
       IN <<first>> \o InsertionOrder(S \ {first})

\* getSnapshotFromCamera with getCameraForRoom: the error thrown, or None
\* when the snapshot was written to class_pics
getSnapshotFromCamera(roomId, snapshot) ==
  LET found == {c \in cameras : c.room = roomId}
      camera == InsertionOrder(found)[1]
  IN IF ~isValidObjectId(roomId) THEN "Cast to ObjectId failed"
     ELSE IF found = {} THEN "No camera found for this room"
     ELSE IF camera.cameraAccessLink = ""
     THEN "Camera access link is not configured"
     ELSE IF ~IncludesVideo(camera.cameraAccessLink)
     THEN "Camera access link is not a /video stream. Cannot find snapshot URL."
     ELSE IF snapshot = "unreachable" THEN "Camera snapshot URL is unreachable."
     ELSE IF snapshot = "writeError" THEN "write failed"
     ELSE None

\* getStudentsForClass: find({ class }) with select('name rollNo faceEmbeddings')
getStudentsForClass(classId) ==
  InsertionOrder({[id |-> x.id, name |-> x.name, rollNo |-> x.rollNo,
                   faceEmbeddings |-> x.faceEmbeddings] :
                  x \in {y \in students : y.class = classId}})

\* variant: the list is built from the students sent to the recognizer
checkAttendanceReport_EmbeddedOnly(allStudents, mlResult) ==
  LET recognizedUsns == Range(mlResult.recognized_usns)
      sent == SelectSeq(allStudents, LAMBDA x : Len(x.faceEmbeddings) > 0)
  IN [stats |-> [faces_detected |-> mlResult.faces_detected,
                 unrecognized_faces |-> mlResult.unrecognized_faces,
                 students_present |-> Cardinality(recognizedUsns),
                 students_absent |-> Len(allStudents) - Cardinality(recognizedUsns)],
      attendanceList |->
        [i \in 1..Len(sent) |->
           [id |-> sent[i].id, name |-> sent[i].name,
            rollNo |-> sent[i].rollNo,
            status |-> IF sent[i].rollNo \in recognizedUsns
                       THEN "Present" ELSE "Absent"]]]

\* steps 5 and 6 of checkAttendance: the report sent to the frontend
checkAttendanceReport(allStudents, mlResult) ==
  LET recognizedUsns == Range(mlResult.recognized_usns)
  IN [stats |-> [faces_detected |-> mlResult.faces_detected,
                 unrecognized_faces |-> mlResult.unrecognized_faces,
                 students_present |-> Cardinality(recognizedUsns),
                 students_absent |-> Len(allStudents) - Cardinality(recognizedUsns)],
      attendanceList |->
        [i \in 1..Len(allStudents) |->
           [id |-> allStudents[i].id, name |-> allStudents[i].name,
            rollNo |-> allStudents[i].rollNo,
            status |-> IF allStudents[i].rollNo \in recognizedUsns
                       THEN "Present" ELSE "Absent"]]]

\* the recognizer is called if the snapshot was saved and the class has a
\* student with stored face data
ReachesRecognizer(classId, roomId, snapshot) ==
  /\ getSnapshotFromCamera(roomId, snapshot) = None
  /\ isValidObjectId(classId)
  /\ \E i \in 1..Len(getStudentsForClass(classId)) :
       Len(getStudentsForClass(classId)[i].faceEmbeddings) > 0

\* checkAttendance (controller); errors are answered by the error handler
\* with the status the controller set, 500 if it set none
checkAttendance(classId, subjectId, roomId, snapshot, ml, mlResult) ==
  LET shot == getSnapshotFromCamera(roomId, snapshot)
      allStudents == getStudentsForClass(classId)
      studentsWithEmbeddings ==
        SelectSeq(allStudents, LAMBDA x : Len(x.faceEmbeddings) > 0)
  IN IF shot # None
     THEN [status |-> 500, body |-> 0,
           message |-> <<"Failed to get camera snapshot:", shot>>]
     ELSE IF ~isValidObjectId(classId)
     THEN [status |-> 500, body |-> 0,
           message |-> <<"Could not retrieve students from database.">>]
     ELSE IF Len(allStudents) = 0
     THEN [status |-> 404, body |-> 0,
           message |-> <<"No students found for this class.">>]
     ELSE IF Len(studentsWithEmbeddings) = 0
     THEN [status |-> 400, body |-> 0,
           message |-> <<"No students in this class have registered face data.">>]
     ELSE IF ml = "failed"
     THEN [status |-> 500, body |-> 0, message |-> <<"ML service failed">>]
     ELSE IF ml = "unreachable"
     THEN [status |-> 500, body |-> 0,
           message |-> <<"Failed to connect to ML service">>]
     ELSE [status |-> 200, message |-> <<>>,
           body |-> checkAttendanceReport(allStudents, mlResult)]

\* variant: the capture stores a record for the proposal
CheckAttendance_Records ==
  \E classId \in ClassIds \cup {NoId, oids + 1}, subjectId \in SubjectIds,
     roomId \in {r.id : r \in rooms} \cup {NoId, oids + 1},
     snapshot \in SnapshotOutcomes, ml \in MlOutcomes,
     recognized_usns \in SeqsUpTo(Usns, MaxRecognized),
     unrecognized_faces \in 0..1 :
    LET mlResult == [faces_detected |-> Len(recognized_usns) + unrecognized_faces,
                     unrecognized_faces |-> unrecognized_faces,
                     recognized_usns |-> recognized_usns]
    IN /\ Receive([op |-> "checkAttendance", classId |-> classId,
                   subjectId |-> subjectId, roomId |-> roomId,
                   snapshot |-> snapshot, ml |-> ml, mlResult |-> mlResult])
       /\ ~ReachesRecognizer(classId, roomId, snapshot) => ml = "ok"
       /\ (~ReachesRecognizer(classId, roomId, snapshot) \/ ml # "ok")
            => (recognized_usns = <<>> /\ unrecognized_faces = 0)
       /\ res' = checkAttendance(classId, subjectId, roomId, snapshot, ml,
                                 mlResult)
       /\ files' = IF getSnapshotFromCamera(roomId, snapshot) = None
                   THEN [files EXCEPT !.class_pics = @ \cup {<<classId, subjectId>>}]
                   ELSE files
       /\ ledger' = IF getSnapshotFromCamera(roomId, snapshot) = None
                    THEN ledger \cup {SeedRecord(FreshRecordId(ledger),
                                                 CHOOSE k \in SeedKeys : TRUE,
                                                 CHOOSE t \in TeacherIds : TRUE)}
                    ELSE ledger
       /\ UNCHANGED <<users, teachers, students, classes, subjects,
                      rooms, cameras, oids, inflight>>

\* POST /check-attendance: the capture run of one request
CheckAttendance ==
  \E classId \in ClassIds \cup {NoId, oids + 1}, subjectId \in SubjectIds,
     roomId \in {r.id : r \in rooms} \cup {NoId, oids + 1},
     snapshot \in SnapshotOutcomes, ml \in MlOutcomes,
     recognized_usns \in SeqsUpTo(Usns, MaxRecognized),
     unrecognized_faces \in 0..1 :
    LET mlResult == [faces_detected |-> Len(recognized_usns) + unrecognized_faces,
                     unrecognized_faces |-> unrecognized_faces,
                     recognized_usns |-> recognized_usns]
    IN /\ Receive([op |-> "checkAttendance", classId |-> classId,
                   subjectId |-> subjectId, roomId |-> roomId,
                   snapshot |-> snapshot, ml |-> ml, mlResult |-> mlResult])
       /\ ~ReachesRecognizer(classId, roomId, snapshot) => ml = "ok"
       /\ (~ReachesRecognizer(classId, roomId, snapshot) \/ ml # "ok")
            => (recognized_usns = <<>> /\ unrecognized_faces = 0)
       /\ res' = checkAttendance(classId, subjectId, roomId, snapshot, ml,
                                 mlResult)
       /\ files' = IF getSnapshotFromCamera(roomId, snapshot) = None
                   THEN [files EXCEPT !.class_pics = @ \cup {<<classId, subjectId>>}]
                   ELSE files
       /\ UNCHANGED <<ledger, users, teachers, students, classes, subjects,
                      rooms, cameras, oids, inflight>>

\* the populated database with two rooms, each with one camera
SeededRooms == {[id |-> 11, name |-> "r1", description |-> "d"],
                [id |-> 12, name |-> "r2", description |-> "d"]}
SeededCameras ==
  {[id |-> 13, cameraId |-> "k1", cameraAccessLink |-> "l1/video", room |-> 11],
   [id |-> 14, cameraId |-> "k2", cameraAccessLink |-> "l3", room |-> 12]}

InitCapture ==
  /\ files = SeededFiles
  /\ ledger = {}
  /\ users = SeededUsers
  /\ teachers = SeededTeachers
  /\ students = SeededStudents
  /\ classes = SeededClasses
  /\ subjects = SeededSubjects
  /\ rooms = SeededRooms
  /\ cameras = SeededCameras
  /\ oids = SeededOids + Cardinality(SeededRooms) + Cardinality(SeededCameras)
  /\ req = Idle
  /\ res = Idle
  /\ inflight = <<>>

NextCapture == CheckAttendance \/ DeleteStudentById \/ NextRequest

SpecCapture == InitCapture /\ [][NextCapture]_vars

-----------------------------------------------------------------------------
(* Two markAttendance requests in flight at once.  Each request runs its    *)
(* controller and the mapping and validation of insertMany in one step;    *)
(* the documents that passed validation then reach the collection one      *)
(* write at a time, in any order, interleaved with the other request's.    *)

Procs == {1, 2}

\* the teacher signed in on each connection
TeacherOf(p) == IF p = 1 THEN 4 ELSE 6

Waiting == [pc |-> "waiting"]

\* the documents of a batch that pass validation, as insertMany sends them
ValidDocs(docs) == SelectSeq(docs, Validates)

\* a request arrives: controller checks, recordsToInsert, validation;
\* `concurrent` notes that the other request was inserting at that moment
BeginMarkAttendance(p) ==
  \E attendanceList \in AttendanceLists, date \in DateStrings :
    LET subjectId == CHOOSE j \in SubjectIds : TRUE
        time == CHOOSE t \in TimeLabels : TRUE
        teacherId == TeacherOf(p)
        checked == markAttendance(attendanceList, subjectId, teacherId, date, time)
        docs == recordsToInsert(attendanceList, subjectId, teacherId, date, time)
        other == CHOOSE q \in Procs : q # p
        overlaps == inflight[other].pc = "inserting" /\ Len(attendanceList) > 0
    IN /\ inflight[p] = Waiting
       /\ inflight' =
            [q \in Procs |->
               IF q = other
               THEN IF overlaps THEN [inflight[q] EXCEPT !.concurrent = TRUE]
                    ELSE inflight[q]
               ELSE [pc |-> IF Len(attendanceList) = 0 THEN "done"
                            ELSE "inserting",
                     req |-> [op |-> "markAttendance",
                              attendanceList |-> attendanceList,
                              subjectId |-> subjectId, teacherId |-> teacherId,
                              date |-> date, time |-> time],
                     pending |-> IF Len(attendanceList) = 0 THEN <<>>
                                 ELSE ValidDocs(docs),
                     dup |-> FALSE,
                     inserted |-> {},
                     concurrent |-> overlaps,
                     res |-> IF Len(attendanceList) = 0
                             THEN [status |-> checked.status,
                                   message |-> checked.message, body |-> 0]
                             ELSE Idle]]
       /\ UNCHANGED <<ledger, users, teachers, students, classes, subjects,
                      rooms, cameras, req, res, oids, files>>

\* the sequence q without its i-th element
RemoveAt(q, i) == SubSeq(q, 1, i - 1) \o SubSeq(q, i + 1, Len(q))

\* insertMany goes on: one pending document is written (a duplicate key is
\* noted, the others still follow), or, none pending, the request is answered
StepMarkAttendance(p) ==
  /\ inflight[p].pc = "inserting"
  /\ IF inflight[p].pending # <<>>
     THEN \E i \in 1..Len(inflight[p].pending) :
            LET w == InsertOne(ledger, inflight[p].pending[i])
            IN /\ ledger' = w.coll
               /\ inflight' =
                    [inflight EXCEPT
                       ![p].pending = RemoveAt(@, i),
                       ![p].dup = @ \/ w.dup,
                       ![p].inserted = IF w.dup THEN @
                                       ELSE @ \cup {FreshRecordId(ledger)}]
     ELSE /\ ledger' = ledger
          /\ inflight' =
               [inflight EXCEPT
                  ![p].pc = "done",
                  ![p].res =
                     IF inflight[p].dup
                     THEN [status |-> 409, message |-> MsgAlreadyMarked,
                           body |-> 0]
                     ELSE [status |-> 201,
                           message |-> "Attendance marked successfully",
                           body |-> Cardinality(inflight[p].inserted)]]
  /\ UNCHANGED <<users, teachers, students, classes, subjects, rooms, cameras,
                 req, res, oids, files>>

\* the answer is sent, the connection takes the next request
EndMarkAttendance(p) ==
  /\ inflight[p].pc = "done"
  /\ inflight' = [inflight EXCEPT ![p] = Waiting]
  /\ UNCHANGED <<ledger, users, teachers, students, classes, subjects, rooms,
                 cameras, req, res, oids, files>>

InitRace ==
  /\ files = SeededFiles
  /\ ledger \in SeedLedgers(MaxKept)
  /\ users = SeededUsers
  /\ teachers = SeededTeachers
  /\ students = SeededStudents
  /\ classes = SeededClasses
  /\ subjects = SeededSubjects
  /\ rooms = {}
  /\ cameras = {}
  /\ oids = SeededOids
  /\ req = Idle
  /\ res = Idle
  /\ inflight = [p \in Procs |-> Waiting]

NextRace ==
  \E p \in Procs :
    \/ BeginMarkAttendance(p)
    \/ StepMarkAttendance(p)
    \/ EndMarkAttendance(p)

SpecRace == InitRace /\ [][NextRace]_vars

-----------------------------------------------------------------------------
(* Roster: addTeacher and createStudent create an identity (User) and its  *)
(* profile in separate writes, with a compensating delete on failure       *)

MaxRosterOids == 6   \* ObjectIds the roster specification hands out at most

\* username and email of a request; "" is a missing field
Accounts ==
  {[username |-> "ua", email |-> "a@x"], [username |-> "ub", email |-> "b@x"],
   [username |-> "ua", email |-> "b@x"], [username |-> "", email |-> "a@x"]}

TeacherIDStrings == {"T1", "T2"}
RollNos == {"R1", "R2"}

\* the subject codes of a request: none, one, two, one given twice
SubjectCodeLists ==
  {<<>>, <<"S1">>, <<"S9">>, <<"S1", "S2">>, <<"S2", "S1">>, <<"S1", "S1">>}

\* validateSubjectCodes / validateClassCodes over the stored codes: the ids
\* found, and the codes not found when the counts differ
validateCodes(codes, stored) ==
  LET found == {d \in stored : d.code \in Range(codes)}
  IN IF Len(codes) = 0 THEN [ok |-> TRUE, ids |-> {}, notFound |-> <<>>]
     ELSE IF Cardinality(found) # Len(codes)
     THEN [ok |-> FALSE, ids |-> {},
           notFound |-> SelectSeq(codes,
                          LAMBDA c : c \notin {d.code : d \in found})]
     ELSE [ok |-> TRUE, ids |-> {d.id : d \in found}, notFound |-> <<>>]

validateSubjectCodes(subjectCodes) ==
  validateCodes(subjectCodes,
                {[id |-> x.id, code |-> x.subjectCode] : x \in subjects})

validateClassCodes(classCodes) ==
  validateCodes(classCodes,
                {[id |-> x.id, code |-> x.classCode] : x \in classes})

\* the unique indexes of User a new document would violate
UserDuplicateKeys(us, username, email) ==
  {k \in {"username", "email"} :
     \E u \in us : IF k = "username" THEN u.username = username
                   ELSE u.email = email}

\* the writes of addTeacher that may fail
AddTeacherFailures == {"none", "user", "teacher", "link"}

\* variant: a failed profile save leaves the identity in place
addTeacherService_NoRollback(us, ts, teacherData, subjectIds, classIds, nextId, fail) ==
  LET savedUser == [id |-> nextId, username |-> teacherData.username,
                    email |-> teacherData.email,
                    password |-> <<"hash", teacherData.password>>,
                    role |-> "Teacher", profileId |-> NoId]
      savedTeacher == [id |-> nextId + 1, user |-> savedUser.id,
                       teacherID |-> teacherData.teacherID,
                       name |-> teacherData.name,
                       subjects |-> subjectIds, assignedClasses |-> classIds]
      duplicateKeys == UserDuplicateKeys(us, teacherData.username,
                                         teacherData.email)
  IN IF duplicateKeys # {}
     THEN [users |-> us, teachers |-> ts, used |-> 1,
           errors |-> {[code |-> 11000, message |-> k] : k \in duplicateKeys}]
     ELSE IF fail = "user"
     THEN [users |-> us, teachers |-> ts, used |-> 1,
           errors |-> {[code |-> 0, message |-> "user save failed"]}]
     ELSE IF \E t \in ts : t.teacherID = teacherData.teacherID
     THEN [users |-> us \cup {savedUser}, teachers |-> ts, used |-> 2,
           errors |-> {[code |-> 0,
                        message |-> "A teacher with this teacherID already exists."]}]
     ELSE IF fail = "teacher"
     THEN [users |-> us \cup {savedUser}, teachers |-> ts, used |-> 2,
           errors |-> {[code |-> 0, message |-> "teacher save failed"]}]
     ELSE IF fail = "link"
     THEN [users |-> {u \in us \cup {savedUser} : u.id # savedUser.id},
           teachers |-> ts \cup {savedTeacher}, used |-> 2,
           errors |-> {[code |-> 0, message |-> "user save failed"]}]
     ELSE [users |-> us \cup {[savedUser EXCEPT !.profileId = savedTeacher.id]},
           teachers |-> ts \cup {savedTeacher}, used |-> 2, errors |-> {}]

\* addTeacher (service) after the validation of the codes: user save, then
\* teacher save and the link of the user to it; an error of these two
\* deletes the saved user before it is thrown again
addTeacherService(us, ts, teacherData, subjectIds, classIds, nextId, fail) ==
  LET savedUser == [id |-> nextId, username |-> teacherData.username,
                    email |-> teacherData.email,
                    password |-> <<"hash", teacherData.password>>,
                    role |-> "Teacher", profileId |-> NoId]
      savedTeacher == [id |-> nextId + 1, user |-> savedUser.id,
                       teacherID |-> teacherData.teacherID,
                       name |-> teacherData.name,
                       subjects |-> subjectIds, assignedClasses |-> classIds]
      duplicateKeys == UserDuplicateKeys(us, teacherData.username,
                                         teacherData.email)
  IN IF duplicateKeys # {}
     THEN [users |-> us, teachers |-> ts, used |-> 1,
           errors |-> {[code |-> 11000, message |-> k] : k \in duplicateKeys}]
     ELSE IF fail = "user"
     THEN [users |-> us, teachers |-> ts, used |-> 1,
           errors |-> {[code |-> 0, message |-> "user save failed"]}]
     ELSE IF \E t \in ts : t.teacherID = teacherData.teacherID
     THEN [users |-> {u \in us \cup {savedUser} : u.id # savedUser.id}, teachers |-> ts, used |-> 2,
           errors |-> {[code |-> 0,
                        message |-> "A teacher with this teacherID already exists."]}]
     ELSE IF fail = "teacher"
     THEN [users |-> {u \in us \cup {savedUser} : u.id # savedUser.id}, teachers |-> ts, used |-> 2,
           errors |-> {[code |-> 0, message |-> "teacher save failed"]}]
     ELSE IF fail = "link"
     THEN [users |-> {u \in us \cup {savedUser} : u.id # savedUser.id},
           teachers |-> ts \cup {savedTeacher}, used |-> 2,
           errors |-> {[code |-> 0, message |-> "user save failed"]}]
     ELSE [users |-> us \cup {[savedUser EXCEPT !.profileId = savedTeacher.id]},
           teachers |-> ts \cup {savedTeacher}, used |-> 2, errors |-> {}]

\* the answer of the addTeacher controller to an error of the service
addTeacherError(e) ==
  IF e.code = 11000
  THEN Respond(409, IF e.message = "username"
                    THEN "A user with this username already exists."
                    ELSE "A user with this email already exists.")
  ELSE IF e.message = "A teacher with this teacherID already exists."
  THEN Respond(409, e.message)
  ELSE Respond(500, "Server error while adding teacher.")

\* addTeacher (controller and service)
AddTeacher ==
  \E account \in Accounts, teacherID \in TeacherIDStrings,
     subjectCodes \in SubjectCodeLists,
     classCodes \in {<<"C1">>, <<"C9">>}, fail \in AddTeacherFailures :
    LET teacherData == [username |-> account.username, email |-> account.email,
                        password |-> "pw", teacherID |-> teacherID,
                        name |-> "n"]
        subjectIds == validateSubjectCodes(subjectCodes)
        classIds == validateClassCodes(classCodes)
        out == addTeacherService(users, teachers, teacherData, subjectIds.ids,
                                 classIds.ids, oids + 1, fail)
        reached == account.username # "" /\ subjectIds.ok /\ classIds.ok
    IN /\ Receive([op |-> "addTeacher", username |-> account.username,
                   email |-> account.email, teacherID |-> teacherID,
                   subjects |-> subjectCodes, assignedClasses |-> classCodes,
                   fail |-> fail])
       /\ oids + 2 <= MaxRosterOids
       /\ ~reached => fail = "none"
       /\ IF account.username = ""
          THEN /\ res' = Respond(400, "Missing required fields for teacher creation.")
               /\ UNCHANGED <<users, teachers, oids>>
          ELSE IF ~subjectIds.ok
          THEN /\ res' = [status |-> 400, message |-> "Invalid subject codes",
                          body |-> subjectIds.notFound]
               /\ UNCHANGED <<users, teachers, oids>>
          ELSE IF ~classIds.ok
          THEN /\ res' = [status |-> 400, message |-> "Invalid class codes",
                          body |-> classIds.notFound]
               /\ UNCHANGED <<users, teachers, oids>>
          ELSE /\ users' = out.users
               /\ teachers' = out.teachers
               /\ oids' = oids + out.used
               /\ IF out.errors = {}
                  THEN res' = [status |-> 201, message |-> "created",
                               body |-> oids + 2]
                  ELSE \E e \in out.errors : res' = addTeacherError(e)
       /\ UNCHANGED <<ledger, students, classes, subjects, rooms, cameras,
                      inflight, files>>

\* the embedding service asked by createNewStudent: an embedding, a 200
\* answer without one, an error answer, no answer
EmbeddingOutcomes == {"ok", "invalid", "error", "down"}

\* the writes of createNewStudent that may fail
CreateStudentFailures == {"none", "user", "student", "link"}

\* variant: a failed student save leaves the created user in place
createNewStudent_NoCleanup(us, ss, studentData, nextId, ml, fail) ==
  LET found == {c \in classes : /\ c.classCode = studentData.classCode
                                /\ c.semester = studentData.semester}
      studentClass == CHOOSE c \in found : TRUE
      createdUser == [id |-> nextId, username |-> studentData.username,
                      email |-> studentData.email,
                      password |-> <<"hash", studentData.password>>,
                      role |-> "Student", profileId |-> NoId]
      createdStudent == [id |-> nextId + 1, user |-> createdUser.id,
                         name |-> studentData.name,
                         rollNo |-> studentData.rollNo,
                         class |-> studentClass.id, faceEmbeddings |-> <<1>>]
      failed(statusCode, message, used) ==
        [users |-> us, students |-> ss, statusCode |-> statusCode,
         message |-> message, used |-> used]
  IN IF found = {}
     THEN failed(404, <<"Class with code", studentData.classCode,
                        "and semester", studentData.semester, "not found.">>, 0)
     ELSE IF \E u \in us : u.email = studentData.email
     THEN failed(400, "User with this email already exists.", 0)
     ELSE IF \E u \in us : u.username = studentData.username
     THEN failed(400, "Username is already taken.", 0)
     ELSE IF \E x \in ss : x.rollNo = studentData.rollNo
     THEN failed(400, "Student with this Roll No already exists.", 0)
     ELSE IF ml = "invalid"
     THEN failed(500, "Axios request setup failed: ML service returned invalid data.", 0)
     ELSE IF ml = "error" THEN failed(422, "ML Service Error", 0)
     ELSE IF ml = "down" THEN failed(503, "ML service is not responding.", 0)
     ELSE IF fail = "user" THEN failed(500, "Database save failed", 1)
     ELSE IF fail = "student"
     THEN [users |-> us \cup {createdUser}, students |-> ss,
           statusCode |-> 500, message |-> "Database save failed", used |-> 2]
     ELSE IF fail = "link"
     THEN [users |-> {u \in us \cup {createdUser} : u.id # createdUser.id},
           students |-> ss \cup {createdStudent}, statusCode |-> 500,
           message |-> "Database save failed", used |-> 2]
     ELSE [users |-> us \cup {[createdUser EXCEPT !.profileId = createdStudent.id]},
           students |-> ss \cup {createdStudent}, statusCode |-> 201,
           message |-> "Student created successfully.", used |-> 2]

\* createNewStudent (service): class lookup, duplicate checks, embedding,
\* then user save, student save and link; an error of these three deletes
\* the created user and is thrown as "Database save failed"
createNewStudent(us, ss, studentData, nextId, ml, fail) ==
  LET found == {c \in classes : /\ c.classCode = studentData.classCode
                                /\ c.semester = studentData.semester}
      studentClass == CHOOSE c \in found : TRUE
      createdUser == [id |-> nextId, username |-> studentData.username,
                      email |-> studentData.email,
                      password |-> <<"hash", studentData.password>>,
                      role |-> "Student", profileId |-> NoId]
      createdStudent == [id |-> nextId + 1, user |-> createdUser.id,
                         name |-> studentData.name,
                         rollNo |-> studentData.rollNo,
                         class |-> studentClass.id, faceEmbeddings |-> <<1>>]
      failed(statusCode, message, used) ==
        [users |-> us, students |-> ss, statusCode |-> statusCode,
         message |-> message, used |-> used]
  IN IF found = {}
     THEN failed(404, <<"Class with code", studentData.classCode,
                        "and semester", studentData.semester, "not found.">>, 0)
     ELSE IF \E u \in us : u.email = studentData.email
     THEN failed(400, "User with this email already exists.", 0)
     ELSE IF \E u \in us : u.username = studentData.username
     THEN failed(400, "Username is already taken.", 0)
     ELSE IF \E x \in ss : x.rollNo = studentData.rollNo
     THEN failed(400, "Student with this Roll No already exists.", 0)
     ELSE IF ml = "invalid"
     THEN failed(500, "Axios request setup failed: ML service returned invalid data.", 0)
     ELSE IF ml = "error" THEN failed(422, "ML Service Error", 0)
     ELSE IF ml = "down" THEN failed(503, "ML service is not responding.", 0)
     ELSE IF fail = "user" THEN failed(500, "Database save failed", 1)
     ELSE IF fail = "student" THEN failed(500, "Database save failed", 2)
     ELSE IF fail = "link"
     THEN [users |-> {u \in us \cup {createdUser} : u.id # createdUser.id},
           students |-> ss \cup {createdStudent}, statusCode |-> 500,
           message |-> "Database save failed", used |-> 2]
     ELSE [users |-> us \cup {[createdUser EXCEPT !.profileId = createdStudent.id]},
           students |-> ss \cup {createdStudent}, statusCode |-> 201,
           message |-> "Student created successfully.", used |-> 2]

\* createStudent (controller) behind the upload middleware, which stores the
\* image under the rollNo before the controller runs; the controller removes
\* the file again when the service throws
CreateStudent ==
  \E account \in Accounts, rollNo \in RollNos, classCode \in {"C1", "C9"},
     file \in BOOLEAN, ml \in EmbeddingOutcomes, fail \in CreateStudentFailures :
    LET studentData == [name |-> "n", classCode |-> classCode, rollNo |-> rollNo,
                        semester |-> 1, username |-> account.username,
                        email |-> account.email, password |-> "pw"]
        out == createNewStudent(users, students, studentData, oids + 1, ml, fail)
        uploaded == [files EXCEPT !.student_pics = @ \cup {rollNo}]
    IN /\ Receive([op |-> "createStudent", username |-> account.username,
                   email |-> account.email, rollNo |-> rollNo,
                   classCode |-> classCode, file |-> file, ml |-> ml,
                   fail |-> fail])
       /\ oids + 2 <= MaxRosterOids
       /\ account.username # ""
       /\ ~file => (ml = "ok" /\ fail = "none")
       /\ ml # "ok" => fail = "none"
       /\ IF ~file
          THEN /\ res' = Respond(400, "Student image is required.")
               /\ UNCHANGED <<users, students, oids, files>>
          ELSE /\ users' = out.users
               /\ students' = out.students
               /\ oids' = oids + out.used
               /\ files' = IF out.statusCode = 201 THEN uploaded
                           ELSE [uploaded EXCEPT !.student_pics = @ \ {rollNo}]
               /\ res' = IF out.statusCode = 201
                         THEN [status |-> 201, message |-> out.message,
                               body |-> oids + 2]
                         ELSE [status |-> out.statusCode,
                               message |-> <<"Upload failed", out.message>>,
                               body |-> 0]
       /\ UNCHANGED <<ledger, teachers, classes, subjects, rooms, cameras,
                      inflight>>

\* the roster of a database with one class and one subject and nobody yet
InitRoster ==
  /\ files = [student_pics |-> {}, class_pics |-> {}]
  /\ ledger = {}
  /\ users = {}
  /\ teachers = {}
  /\ students = {}
  /\ classes = SeededClasses
  /\ subjects = SeededSubjects
  /\ rooms = {}
  /\ cameras = {}
  /\ oids = Cardinality(SeededClasses) + Cardinality(SeededSubjects)
  /\ req = Idle
  /\ res = Idle
  /\ inflight = <<>>

NextRoster ==
  \/ AddTeacher
  \/ CreateStudent
  \/ DeleteTeacher
  \/ DeleteStudentById
  \/ NextRequest

SpecRoster == InitRoster /\ [][NextRoster]_vars

-----------------------------------------------------------------------------
(* Roster: editTeacher updates the identity, then the profile, and puts    *)
(* username and email back when the profile save fails                     *)

\* variant: the rollback puts the email back and keeps the new username
editTeacherService_KeepsUsername(us, ts, teacherId, updateData, fail) ==
  LET teacher == CHOOSE t \in ts : t.id = teacherId
      user == CHOOSE u \in us : u.id = teacher.user
      originalUser == [username |-> user.username, email |-> user.email]
      subjectIdsToSet == IF updateData.hasSubjects
                         THEN validateSubjectCodes(updateData.subjects)
                         ELSE [ok |-> TRUE, ids |-> teacher.subjects,
                               notFound |-> <<>>]
      touched == updateData.username # "" \/ updateData.email # ""
                   \/ updateData.password # ""
      edited == [user EXCEPT
                   !.username = IF updateData.username # ""
                                THEN updateData.username ELSE @,
                   !.email = IF updateData.email # "" THEN updateData.email
                             ELSE @,
                   !.password = IF updateData.password # ""
                                THEN <<"hash", updateData.password>> ELSE @]
      savedUsers == IF touched THEN (us \ {user}) \cup {edited} ELSE us
      duplicateKeys == UserDuplicateKeys(us \ {user}, edited.username,
                                         edited.email)
      restored == (us \ {user}) \cup
                  {[(IF touched THEN edited ELSE user) EXCEPT
                      !.username = @,
                      !.email = originalUser.email]}
      newTeacher == [teacher EXCEPT
                       !.teacherID = IF updateData.teacherID # ""
                                     THEN updateData.teacherID ELSE @,
                       !.name = IF updateData.name # "" THEN updateData.name
                                ELSE @,
                       !.subjects = subjectIdsToSet.ids]
      failed(message, detail, coll) ==
        [users |-> coll, teachers |-> ts, errors |-> {message},
         detail |-> detail]
  IN IF ~\E t \in ts : t.id = teacherId
     THEN failed("Teacher not found.", <<>>, us)
     ELSE IF ~\E u \in us : u.id = teacher.user
     THEN failed("Associated user account not found.", <<>>, us)
     ELSE IF ~subjectIdsToSet.ok
     THEN failed("Invalid subject codes", subjectIdsToSet.notFound, us)
     ELSE IF touched /\ duplicateKeys # {}
     THEN [users |-> us, teachers |-> ts, detail |-> <<>>,
           errors |-> {IF k = "username"
                       THEN "A user with this username already exists."
                       ELSE "A user with this email already exists." :
                       k \in duplicateKeys}]
     ELSE IF touched /\ fail = "user"
     THEN failed("user save failed", <<>>, us)
     ELSE IF \E t \in ts \ {teacher} : t.teacherID = newTeacher.teacherID
     THEN failed("A teacher with this teacherID already exists.", <<>>, restored)
     ELSE IF fail = "teacher"
     THEN failed("teacher save failed", <<>>, restored)
     ELSE [users |-> savedUsers, teachers |-> (ts \ {teacher}) \cup {newTeacher},
           errors |-> {}, detail |-> <<>>]

\* editTeacher (service)
editTeacherService(us, ts, teacherId, updateData, fail) ==
  LET teacher == CHOOSE t \in ts : t.id = teacherId
      user == CHOOSE u \in us : u.id = teacher.user
      originalUser == [username |-> user.username, email |-> user.email]
      subjectIdsToSet == IF updateData.hasSubjects
                         THEN validateSubjectCodes(updateData.subjects)
                         ELSE [ok |-> TRUE, ids |-> teacher.subjects,
                               notFound |-> <<>>]
      touched == updateData.username # "" \/ updateData.email # ""
                   \/ updateData.password # ""
      edited == [user EXCEPT
                   !.username = IF updateData.username # ""
                                THEN updateData.username ELSE @,
                   !.email = IF updateData.email # "" THEN updateData.email
                             ELSE @,
                   !.password = IF updateData.password # ""
                                THEN <<"hash", updateData.password>> ELSE @]
      savedUsers == IF touched THEN (us \ {user}) \cup {edited} ELSE us
      duplicateKeys == UserDuplicateKeys(us \ {user}, edited.username,
                                         edited.email)
      restored == (us \ {user}) \cup
                  {[(IF touched THEN edited ELSE user) EXCEPT
                      !.username = originalUser.username,
                      !.email = originalUser.email]}
      newTeacher == [teacher EXCEPT
                       !.teacherID = IF updateData.teacherID # ""
                                     THEN updateData.teacherID ELSE @,
                       !.name = IF updateData.name # "" THEN updateData.name
                                ELSE @,
                       !.subjects = subjectIdsToSet.ids]
      failed(message, detail, coll) ==
        [users |-> coll, teachers |-> ts, errors |-> {message},
         detail |-> detail]
  IN IF ~\E t \in ts : t.id = teacherId
     THEN failed("Teacher not found.", <<>>, us)
     ELSE IF ~\E u \in us : u.id = teacher.user
     THEN failed("Associated user account not found.", <<>>, us)
     ELSE IF ~subjectIdsToSet.ok
     THEN failed("Invalid subject codes", subjectIdsToSet.notFound, us)
     ELSE IF touched /\ duplicateKeys # {}
     THEN [users |-> us, teachers |-> ts, detail |-> <<>>,
           errors |-> {IF k = "username"
                       THEN "A user with this username already exists."
                       ELSE "A user with this email already exists." :
                       k \in duplicateKeys}]
     ELSE IF touched /\ fail = "user"
     THEN failed("user save failed", <<>>, us)
     ELSE IF \E t \in ts \ {teacher} : t.teacherID = newTeacher.teacherID
     THEN failed("A teacher with this teacherID already exists.", <<>>, restored)
     ELSE IF fail = "teacher"
     THEN failed("teacher save failed", <<>>, restored)
     ELSE [users |-> savedUsers, teachers |-> (ts \ {teacher}) \cup {newTeacher},
           errors |-> {}, detail |-> <<>>]

\* the answer of the editTeacher controller to an error of the service
editTeacherError(message, detail) ==
  IF message \in {"Teacher not found.", "Associated user account not found."}
  THEN Respond(404, message)
  ELSE IF message = "A user with this username already exists."
  THEN Respond(409, "A user or teacher with this username already exists.")
  ELSE IF message = "A user with this email already exists."
  THEN Respond(409, "A user or teacher with this email already exists.")
  ELSE IF message = "A teacher with this teacherID already exists."
  THEN Respond(409, "A user or teacher with this teacherID already exists.")
  ELSE IF message = "Invalid subject codes"
  THEN [status |-> 400, message |-> message, body |-> detail]
  ELSE Respond(500, "Server error while updating teacher.")

\* the writes of editTeacher that may fail
EditTeacherFailures == {"none", "user", "teacher"}

\* editTeacher (controller and service); "" is a field the request leaves
\* out, and so is an empty list of subject codes
EditTeacher ==
  \E id \in {t.id : t \in teachers} \cup {NoId, oids + 1},
     username \in {"", "tb", "tc"}, email \in {"", "tc@x"},
     password \in {"", "pz"}, teacherID \in {"", "T2", "T3"},
     codes \in {<<>>, <<"S9">>}, fail \in EditTeacherFailures :
    LET updateData == [username |-> username, email |-> email,
                       password |-> password, teacherID |-> teacherID,
                       name |-> "", hasSubjects |-> codes # <<>>,
                       subjects |-> codes]
        out == editTeacherService(users, teachers, id, updateData, fail)
    IN /\ Receive([op |-> "editTeacher", id |-> id, username |-> username,
                   email |-> email, password |-> password,
                   teacherID |-> teacherID, subjects |-> codes, fail |-> fail])
       /\ (~isValidObjectId(id) \/ codes # <<>>) => fail = "none"
       /\ IF ~isValidObjectId(id)
          THEN /\ res' = Respond(400, "Invalid teacher ID format.")
               /\ UNCHANGED <<users, teachers>>
          ELSE /\ users' = out.users
               /\ teachers' = out.teachers
               /\ IF out.errors = {}
                  THEN res' = [status |-> 200, message |-> "updated",
                               body |-> id]
                  ELSE \E e \in out.errors :
                         res' = editTeacherError(e, out.detail)
       /\ UNCHANGED <<ledger, students, classes, subjects, rooms, cameras,
                      oids, inflight, files>>

\* the populated roster, as it is or with the identity of teacher 6 missing
InitEdit ==
  /\ files = SeededFiles
  /\ ledger = {}
  /\ users \in {SeededUsers, {u \in SeededUsers : u.id # 5}}
  /\ teachers = SeededTeachers
  /\ students = SeededStudents
  /\ classes = SeededClasses
  /\ subjects = SeededSubjects
  /\ rooms = {}
  /\ cameras = {}
  /\ oids = SeededOids
  /\ req = Idle
  /\ res = Idle
  /\ inflight = <<>>

NextEdit == EditTeacher \/ NextRequest

SpecEdit == InitEdit /\ [][NextEdit]_vars

-----------------------------------------------------------------------------
(* Classes and the subjects that reference them                            *)

MaxSubjects == 3     \* most subjects in the database of this specification

SubjectCodeNames == <<"S1", "S2", "S3", "S4", "S5">>

SecondClass == [id |-> 21, name |-> "c2", classCode |-> "C2", semester |-> 1]

\* the subject collections of at most MaxSubjects subjects, each offered by
\* one of the two classes
SubjectCollections ==
  UNION {{{[id |-> 30 + k, subjectCode |-> SubjectCodeNames[k],
            class |-> f[k]] : k \in K} :
          f \in [K -> {x.id : x \in SeededClasses \cup {SecondClass}}]} :
         K \in SUBSET (1..MaxSubjects)}

InitClass ==
  /\ files = [student_pics |-> {}, class_pics |-> {}]
  /\ ledger = {}
  /\ users = {}
  /\ teachers = {}
  /\ students = {}
  /\ classes = SeededClasses \cup {SecondClass}
  /\ subjects \in SubjectCollections
  /\ rooms = {}
  /\ cameras = {}
  /\ oids = 30 + MaxSubjects
  /\ req = Idle
  /\ res = Idle
  /\ inflight = <<>>

NextClass == DeleteClass \/ DeleteSubject \/ NextRequest

SpecClass == InitClass /\ [][NextClass]_vars

-----------------------------------------------------------------------------
(* Teacher router: getAttendanceSummary                                     *)

\* (num / den).toFixed(1): the value rounded to one decimal, as the pair of
\* its integer part and its decimal digit ("80.0" is <<80, 0>>)
toFixed1(num, den) ==
  LET tenths == (20 * num + den) \div (2 * den)
  IN <<tenths \div 10, tenths % 10>>

\* variant: the list has the students the aggregation returned a group for
getAttendanceSummaryService_OnlyRecorded(coll, classId, subjectId) ==
  LET allStudents == InsertionOrder({[id |-> x.id, name |-> x.name,
                                      rollNo |-> x.rollNo] :
                                     x \in {y \in students : y.class = classId}})
      matched == {r \in coll : /\ r.subject = subjectId
                               /\ r.student \in {allStudents[i].id :
                                                 i \in 1..Len(allStudents)}}
      statsMap == {r.student : r \in matched}
      presentCount(id) ==
        Cardinality({r \in matched : r.student = id /\ r.status = "Present"})
      absentCount(id) ==
        Cardinality({r \in matched : r.student = id /\ r.status = "Absent"})
      entry(student) ==
        LET found == student.id \in statsMap
                       /\ presentCount(student.id) + absentCount(student.id) > 0
            present == IF found THEN presentCount(student.id) ELSE 0
            absent == IF found THEN absentCount(student.id) ELSE 0
            total == present + absent
        IN [id |-> student.id, name |-> student.name, rollNo |-> student.rollNo,
            present |-> present, absent |-> absent, totalClasses |-> total,
            presentPercentage |->
              IF found THEN toFixed1(present * 100, total) ELSE toFixed1(0, 1),
            absentPercentage |->
              IF found THEN toFixed1(absent * 100, total) ELSE toFixed1(0, 1)]
      listed == SelectSeq(allStudents, LAMBDA x : x.id \in statsMap)
  IN [i \in 1..Len(listed) |-> entry(listed[i])]

\* getAttendanceSummary (service), for a class that has students: the
\* aggregation grouped by student, merged into the list of all students
getAttendanceSummaryService(coll, classId, subjectId) ==
  LET allStudents == InsertionOrder({[id |-> x.id, name |-> x.name,
                                      rollNo |-> x.rollNo] :
                                     x \in {y \in students : y.class = classId}})
      matched == {r \in coll : /\ r.subject = subjectId
                               /\ r.student \in {allStudents[i].id :
                                                 i \in 1..Len(allStudents)}}
      statsMap == {r.student : r \in matched}
      presentCount(id) ==
        Cardinality({r \in matched : r.student = id /\ r.status = "Present"})
      absentCount(id) ==
        Cardinality({r \in matched : r.student = id /\ r.status = "Absent"})
      entry(student) ==
        LET found == student.id \in statsMap
                       /\ presentCount(student.id) + absentCount(student.id) > 0
            present == IF found THEN presentCount(student.id) ELSE 0
            absent == IF found THEN absentCount(student.id) ELSE 0
            total == present + absent
        IN [id |-> student.id, name |-> student.name, rollNo |-> student.rollNo,
            present |-> present, absent |-> absent, totalClasses |-> total,
            presentPercentage |->
              IF found THEN toFixed1(present * 100, total) ELSE toFixed1(0, 1),
            absentPercentage |->
              IF found THEN toFixed1(absent * 100, total) ELSE toFixed1(0, 1)]
      listed == allStudents
  IN [i \in 1..Len(listed) |-> entry(listed[i])]

\* getAttendanceSummary (controller and service); NoId is a missing parameter
GetAttendanceSummary ==
  \E classId \in ClassIds \cup {NoId, oids + 1},
     subjectId \in SubjectIds \cup {NoId, oids + 1} :
    /\ Receive([op |-> "getAttendanceSummary", classId |-> classId,
                subjectId |-> subjectId])
    /\ res' = IF classId = NoId \/ subjectId = NoId
              THEN Respond(400, "Missing required query parameters: classId and subjectId.")
              ELSE IF \A x \in students : x.class # classId
              THEN Respond(404, "No students found for this class.")
              ELSE [status |-> 200, message |-> "Summary fetched successfully",
                    body |-> getAttendanceSummaryService(ledger, classId,
                                                         subjectId)]
    /\ UNCHANGED <<ledger, users, teachers, students, classes, subjects, rooms,
                   cameras, oids, inflight, files>>

\* stored records of either status
SummaryLedgers ==
  UNION {{{[r EXCEPT !.status = f[r]] : r \in L} : f \in [L -> StatusEnum]} :
         L \in SeedLedgers(MaxSeed)}

InitSummary ==
  /\ ledger \in SummaryLedgers
  /\ users = SeededUsers
  /\ teachers = SeededTeachers
  /\ students = SeededStudents
  /\ classes = SeededClasses
  /\ subjects = SeededSubjects
  /\ rooms = {}
  /\ cameras = {}
  /\ req = Idle
  /\ res = Idle
  /\ oids = SeededOids
  /\ inflight = <<>>
  /\ files = SeededFiles

NextSummary == GetAttendanceSummary \/ DeleteStudentById \/ NextRequest

SpecSummary == InitSummary /\ [][NextSummary]_vars

-----------------------------------------------------------------------------
(* Capture and recording on a ledger that already has records              *)

InitProposal ==
  /\ files = SeededFiles
  /\ ledger \in SeedLedgers(MaxKept)
  /\ users = SeededUsers
  /\ teachers = SeededTeachers
  /\ students = SeededStudents
  /\ classes = SeededClasses
  /\ subjects = SeededSubjects
  /\ rooms = SeededRooms
  /\ cameras = SeededCameras
  /\ oids = SeededOids + Cardinality(SeededRooms) + Cardinality(SeededCameras)
  /\ req = Idle
  /\ res = Idle
  /\ inflight = <<>>

NextProposal == CheckAttendance \/ MarkAttendance \/ NextRequest

SpecProposal == InitProposal /\ [][NextProposal]_vars

-----------------------------------------------------------------------------
(* The capture run of checkAttendance, one await at a time                 *)

\* the steps of a run, in the order the controller reaches them
CaptureSteps ==
  <<"camera resolved", "snapshot captured", "roster loaded",
    "recognizer called", "recognition complete", "reconciled">>

\* getCameraForRoom: the error thrown, or None when the camera is returned
getCameraForRoom(roomId) ==
  LET found == {c \in cameras : c.room = roomId}
      camera == InsertionOrder(found)[1]
  IN IF ~isValidObjectId(roomId) THEN "Cast to ObjectId failed"
     ELSE IF found = {} THEN "No camera found for this room"
     ELSE IF camera.cameraAccessLink = ""
     THEN "Camera access link is not configured"
     ELSE None

\* the run with one more step done
Advance(pc, step) ==
  <<[pc |-> pc, steps |-> Append(inflight[1].steps, step)]>>

\* the answer of the request in progress
Answer ==
  checkAttendance(req.classId, req.subjectId, req.roomId, req.snapshot,
                  req.ml, req.mlResult)

\* an error is thrown: the error handler answers, the run is over
Throw(steps) ==
  /\ inflight' = <<[pc |-> "failed", steps |-> steps]>>
  /\ res' = Answer

\* the request arrives at the controller
BeginCheckAttendance ==
  \E classId \in ClassIds \cup {NoId, oids + 1}, subjectId \in SubjectIds,
     roomId \in {r.id : r \in rooms} \cup {NoId, oids + 1},
     snapshot \in SnapshotOutcomes, ml \in MlOutcomes,
     recognized_usns \in SeqsUpTo(Usns, MaxRecognized),
     unrecognized_faces \in 0..1 :
    LET mlResult == [faces_detected |-> Len(recognized_usns) + unrecognized_faces,
                     unrecognized_faces |-> unrecognized_faces,
                     recognized_usns |-> recognized_usns]
    IN /\ Receive([op |-> "checkAttendance", classId |-> classId,
                   subjectId |-> subjectId, roomId |-> roomId,
                   snapshot |-> snapshot, ml |-> ml, mlResult |-> mlResult])
       /\ inflight = <<>>
       /\ ~ReachesRecognizer(classId, roomId, snapshot) => ml = "ok"
       /\ (~ReachesRecognizer(classId, roomId, snapshot) \/ ml # "ok")
            => (recognized_usns = <<>> /\ unrecognized_faces = 0)
       /\ inflight' = <<[pc |-> "start", steps |-> <<>>]>>
       /\ UNCHANGED <<ledger, users, teachers, students, classes, subjects,
                      rooms, cameras, res, oids, files>>

\* step 1: getCameraForRoom
ResolveCamera ==
  /\ inflight # <<>>
  /\ inflight[1].pc = "start"
  /\ IF getCameraForRoom(req.roomId) = None
     THEN /\ inflight' = Advance("cameraResolved", "camera resolved")
          /\ res' = res
     ELSE Throw(inflight[1].steps)
  /\ UNCHANGED <<ledger, users, teachers, students, classes, subjects, rooms,
                 cameras, req, oids, files>>

\* variant: a camera that cannot be reached does not end the run
CaptureSnapshot_Lenient ==
  /\ inflight # <<>>
  /\ inflight[1].pc = "cameraResolved"
  /\ IF getSnapshotFromCamera(req.roomId, req.snapshot)
          \in {None, "Camera snapshot URL is unreachable."}
     THEN /\ inflight' = Advance("snapshotCaptured", "snapshot captured")
          /\ res' = res
          /\ files' = [files EXCEPT
                         !.class_pics = @ \cup {<<req.classId, req.subjectId>>}]
     ELSE /\ Throw(inflight[1].steps)
          /\ files' = files
  /\ UNCHANGED <<ledger, users, teachers, students, classes, subjects, rooms,
                 cameras, req, oids>>

\* step 2: the snapshot is fetched from the camera and written to class_pics
CaptureSnapshot ==
  /\ inflight # <<>>
  /\ inflight[1].pc = "cameraResolved"
  /\ IF getSnapshotFromCamera(req.roomId, req.snapshot) = None
     THEN /\ inflight' = Advance("snapshotCaptured", "snapshot captured")
          /\ res' = res
          /\ files' = [files EXCEPT
                         !.class_pics = @ \cup {<<req.classId, req.subjectId>>}]
     ELSE /\ Throw(inflight[1].steps)
          /\ files' = files
  /\ UNCHANGED <<ledger, users, teachers, students, classes, subjects, rooms,
                 cameras, req, oids>>

\* variant: the roster is passed on whether or not it has an embedding
LoadRoster_Unfiltered ==
  /\ inflight # <<>>
  /\ inflight[1].pc = "snapshotCaptured"
  /\ IF ~isValidObjectId(req.classId)
     THEN Throw(inflight[1].steps)
     ELSE IF Len(getStudentsForClass(req.classId)) = 0
     THEN Throw(Append(inflight[1].steps, "roster loaded"))
     ELSE /\ inflight' = Advance("rosterLoaded", "roster loaded")
          /\ res' = res
  /\ UNCHANGED <<ledger, users, teachers, students, classes, subjects, rooms,
                 cameras, req, oids, files>>

\* step 3: getStudentsForClass and the two checks on its result
LoadRoster ==
  /\ inflight # <<>>
  /\ inflight[1].pc = "snapshotCaptured"
  /\ IF ~isValidObjectId(req.classId)
     THEN Throw(inflight[1].steps)
     ELSE IF \A i \in 1..Len(getStudentsForClass(req.classId)) :
               Len(getStudentsForClass(req.classId)[i].faceEmbeddings) = 0
     THEN Throw(Append(inflight[1].steps, "roster loaded"))
     ELSE /\ inflight' = Advance("rosterLoaded", "roster loaded")
          /\ res' = res
  /\ UNCHANGED <<ledger, users, teachers, students, classes, subjects, rooms,
                 cameras, req, oids, files>>

\* variant: a failed call of the recognizer is made once more
RecognizeStudents_Retries ==
  /\ inflight # <<>>
  /\ inflight[1].pc = "rosterLoaded"
  /\ IF req.ml = "ok"
     THEN /\ inflight' =
               <<[pc |-> "recognitionComplete",
                  steps |-> inflight[1].steps
                              \o <<"recognizer called", "recognition complete">>]>>
          /\ res' = res
     ELSE IF inflight[1].steps = SubSeq(CaptureSteps, 1, 3)
     THEN /\ inflight' = Advance("rosterLoaded", "recognizer called")
          /\ res' = res
     ELSE Throw(Append(inflight[1].steps, "recognizer called"))
  /\ UNCHANGED <<ledger, users, teachers, students, classes, subjects, rooms,
                 cameras, req, oids, files>>

\* step 4: recognizeStudents posts the roster to the recognizer
RecognizeStudents ==
  /\ inflight # <<>>
  /\ inflight[1].pc = "rosterLoaded"
  /\ IF req.ml = "ok"
     THEN /\ inflight' =
               <<[pc |-> "recognitionComplete",
                  steps |-> inflight[1].steps
                              \o <<"recognizer called", "recognition complete">>]>>
          /\ res' = res
     ELSE Throw(Append(inflight[1].steps, "recognizer called"))
  /\ UNCHANGED <<ledger, users, teachers, students, classes, subjects, rooms,
                 cameras, req, oids, files>>

\* steps 5 and 6: the report is built and sent
Reconcile ==
  /\ inflight # <<>>
  /\ inflight[1].pc = "recognitionComplete"
  /\ inflight' = Advance("reconciled", "reconciled")
  /\ res' = Answer
  /\ UNCHANGED <<ledger, users, teachers, students, classes, subjects, rooms,
                 cameras, req, oids, files>>

\* the response is out; the next request can come
EndCheckAttendance ==
  /\ inflight # <<>>
  /\ inflight[1].pc \in {"failed", "reconciled"}
  /\ req' = Idle
  /\ res' = Idle
  /\ inflight' = <<>>
  /\ UNCHANGED <<ledger, users, teachers, students, classes, subjects, rooms,
                 cameras, oids, files>>

InitRun == InitCapture

NextRun ==
  \/ BeginCheckAttendance
  \/ ResolveCamera
  \/ CaptureSnapshot
  \/ LoadRoster
  \/ RecognizeStudents
  \/ Reconcile
  \/ EndCheckAttendance
  \/ (inflight = <<>> /\ DeleteStudentById)
  \/ (inflight = <<>> /\ NextRequest)

SpecRun == InitRun /\ [][NextRun]_vars

-----------------------------------------------------------------------------
(* Admin router: editRoom                                                  *)

\* the `camera` key of an update: absent, one object ("" is a field that is
\* missing or empty), or an array of camera objects
EditCameraData ==
  {[kind |-> "absent", cameraId |-> "", cameraAccessLink |-> "", items |-> 0],
   [kind |-> "object", cameraId |-> "", cameraAccessLink |-> "", items |-> 0],
   [kind |-> "object", cameraId |-> "k3", cameraAccessLink |-> "", items |-> 0],
   [kind |-> "object", cameraId |-> "k2", cameraAccessLink |-> "", items |-> 0],
   [kind |-> "object", cameraId |-> "", cameraAccessLink |-> "l4/video",
    items |-> 0],
   [kind |-> "object", cameraId |-> "k3", cameraAccessLink |-> "l3",
    items |-> 0],
   [kind |-> "array", cameraId |-> "", cameraAccessLink |-> "",
    items |-> MaxCams]}

MsgArrayNotSupported ==
  "Updating cameras via an array is not supported. Please send a single \"camera\" object."

\* editRoom (service): the room is saved first, then the one camera found
\* for the room is updated; None is a key the request does not have.  The
\* service reads name, description and camera; any other key of the body,
\* `cameras` among them, is not looked at.
editRoomService(rs, cams, roomId, updateData) ==
  LET found == {r \in rs : r.id = roomId}
      room == CHOOSE r \in found : TRUE
      name == updateData.name
      renamed == name # None /\ name # "" /\ name # room.name
      saved == [room EXCEPT
                  !.name = IF renamed THEN name ELSE @,
                  !.description = IF updateData.description # None
                                  THEN updateData.description ELSE @]
      rs1 == (rs \ found) \cup {saved}
      cameraData == updateData.camera
      ofRoom == {c \in cams : c.room = roomId}
      cameraToUpdate == InsertionOrder(ofRoom)[1]
      others == {c \in cams : c.id # cameraToUpdate.id}
      sameId == {c \in others : /\ cameraData.cameraId # ""
                                /\ c.cameraId = cameraData.cameraId}
      sameLink == {c \in others :
                     /\ cameraData.cameraAccessLink # ""
                     /\ c.cameraAccessLink = cameraData.cameraAccessLink}
      duplicate == InsertionOrder(sameId \cup sameLink)[1]
      updated == [cameraToUpdate EXCEPT
                    !.cameraId = IF cameraData.cameraId # ""
                                 THEN cameraData.cameraId ELSE @,
                    !.cameraAccessLink =
                       IF cameraData.cameraAccessLink # ""
                       THEN cameraData.cameraAccessLink ELSE @]
  IN IF found = {}
     THEN [rooms |-> rs, cameras |-> cams, error |-> <<"Room not found.">>]
     ELSE IF renamed /\ \E r \in rs : r.name = name /\ r.id # roomId
     THEN [rooms |-> rs, cameras |-> cams,
           error |-> <<"A room with this name already exists.">>]
     ELSE IF cameraData.kind = "object"
     THEN IF ofRoom = {}
          THEN [rooms |-> rs1, cameras |-> cams,
                error |-> <<"No existing camera found for room", saved.name,
                            "to update.">>]
          ELSE IF sameId \cup sameLink # {}
          THEN [rooms |-> rs1, cameras |-> cams,
                error |-> <<"A different camera with this",
                            IF duplicate.cameraId = cameraData.cameraId
                            THEN "cameraId" ELSE "cameraAccessLink",
                            "already exists.">>]
          ELSE [rooms |-> rs1, cameras |-> others \cup {updated},
                error |-> <<>>]
     ELSE IF cameraData.kind = "array"
     THEN [rooms |-> rs1, cameras |-> cams, error |-> <<MsgArrayNotSupported>>]
     ELSE [rooms |-> rs1, cameras |-> cams, error |-> <<>>]

\* the answer the editRoom controller gives an error of the service
editRoomError(error) ==
  IF error[1] \in {"Room not found.", "No existing camera found for room"}
  THEN [status |-> 404, message |-> error, body |-> 0]
  ELSE IF error[Len(error)] \in {"A room with this name already exists.",
                                 "already exists."}
  THEN [status |-> 409, message |-> error, body |-> 0]
  ELSE IF error = <<MsgArrayNotSupported>>
  THEN [status |-> 400, message |-> error, body |-> 0]
  ELSE [status |-> 500, message |-> <<"Server error while updating room.">>,
        body |-> 0]

\* editRoom (controller and service); `cameras` is the number of camera
\* objects the body has under the key addRoom uses, 0 when it has none
EditRoom ==
  \E id \in {r.id : r \in rooms} \cup {NoId, oids + 1},
     name \in {None, "r2", "r3"}, description \in {None, "e"},
     camera \in EditCameraData, cams \in {0, MaxCams} :
    LET updateData == [name |-> name, description |-> description,
                       camera |-> camera, cameras |-> cams]
        out == editRoomService(rooms, cameras, id, updateData)
    IN /\ Receive([op |-> "editRoom", id |-> id, name |-> name,
                   description |-> description, camera |-> camera,
                   cameras |-> cams])
       /\ IF ~isValidObjectId(id)
          THEN /\ res' = [status |-> 400,
                          message |-> <<"Invalid room ID format.">>,
                          body |-> 0]
               /\ UNCHANGED <<rooms, cameras>>
          ELSE /\ rooms' = out.rooms
               /\ cameras' = out.cameras
               /\ res' = IF out.error = <<>>
                         THEN [status |-> 200, message |-> <<>>, body |-> id]
                         ELSE editRoomError(out.error)
       /\ UNCHANGED <<ledger, users, teachers, students, classes, subjects,
                      oids, inflight, files>>

\* the catalog after addRoom calls: room r1 with one or two cameras, room r2
\* with one camera or none
SecondCamera ==
  [id |-> 15, cameraId |-> "k5", cameraAccessLink |-> "l5/video", room |-> 11]

InitEditRoom ==
  /\ files = SeededFiles
  /\ ledger = {}
  /\ users = SeededUsers
  /\ teachers = SeededTeachers
  /\ students = SeededStudents
  /\ classes = SeededClasses
  /\ subjects = SeededSubjects
  /\ rooms = SeededRooms
  /\ cameras \in {SeededCameras, SeededCameras \cup {SecondCamera},
                  {c \in SeededCameras : c.room = 11}}
  /\ oids = SeededOids + Cardinality(SeededRooms) + Cardinality(SeededCameras)
            + 1
  /\ req = Idle
  /\ res = Idle
  /\ inflight = <<>>

NextEditRoom == EditRoom \/ NextRequest

SpecEditRoom == InitEditRoom /\ [][NextEditRoom]_vars

-----------------------------------------------------------------------------
(* Admin router: addClass and addSubject                                   *)

\* a semester that the request does not give
NoSemester == 0

\* the classes the seeding script created: every one has a location
CatalogClasses ==
  {[id |-> 1, name |-> "c1", classCode |-> "C1", semester |-> 1,
    location |-> "loc1"]}

MsgClassFields == "Missing required fields: name and classCode."
MsgSubjectFields ==
  "Missing required fields: name, subjectCode, and class (as classCode)."

\* addClass (service): "" is a field the request does not have.  The schema
\* requires a semester from 1 to 8 and has a unique index on location,
\* which addClass never sets: a class without location is indexed under
\* null, and a second one is a duplicate key.
addClass(cs, classData, nextId) ==
  LET name == classData.name
      classCode == classData.classCode
      found == {c \in cs : c.name = name \/ c.classCode = classCode}
      duplicate == InsertionOrder(found)[1]
      newClass == [id |-> nextId, name |-> name, classCode |-> classCode,
                   semester |-> classData.semester, location |-> None]
  IN IF name = "" \/ classCode = ""
     THEN [classes |-> cs, kind |-> "Error", error |-> <<MsgClassFields>>]
     ELSE IF found # {}
     THEN [classes |-> cs, kind |-> "Error",
           error |-> <<"A class with this",
                       IF duplicate.name = name THEN "name" ELSE "classCode",
                       "already exists.">>]
     ELSE IF classData.semester \notin 1..8
     THEN [classes |-> cs, kind |-> "ValidationError",
           error |-> <<"Class validation failed: semester">>]
     ELSE IF \E c \in cs : c.location = None
     THEN [classes |-> cs, kind |-> "MongoServerError",
           error |-> <<"E11000 duplicate key error", "location">>]
     ELSE [classes |-> cs \cup {newClass}, kind |-> "none", error |-> <<>>]

\* addClass (controller and service)
AddClass ==
  \E name \in {"", "c1", "c2", "c3"}, classCode \in {"", "C1", "C2", "C3"},
     semester \in {NoSemester, 1} :
    LET out == addClass(classes, [name |-> name, classCode |-> classCode,
                                  semester |-> semester], oids + 1)
    IN /\ Receive([op |-> "addClass", name |-> name, classCode |-> classCode,
                   semester |-> semester])
       /\ classes' = out.classes
       /\ oids' = IF out.kind = "none" THEN oids + 1 ELSE oids
       /\ res' = IF out.kind = "none"
                 THEN [status |-> 201, message |-> <<>>, body |-> oids + 1]
                 ELSE IF out.error[Len(out.error)] = "already exists."
                 THEN [status |-> 409, message |-> out.error, body |-> 0]
                 ELSE IF out.kind = "ValidationError"
                 THEN [status |-> 400, message |-> out.error, body |-> 0]
                 ELSE [status |-> 500, body |-> 0,
                       message |-> <<"Server error while adding class.">>]
       /\ UNCHANGED <<ledger, users, teachers, students, subjects, rooms,
                      cameras, inflight, files>>

\* addSubject (service): the subject is built from name, subjectCode and
\* class; the schema also requires a semester, so validation fails on save
addSubject(ss, cs, subjectData) ==
  IF subjectData.name = "" \/ subjectData.subjectCode = ""
       \/ subjectData.classCode = ""
  THEN [kind |-> "Error", error |-> <<MsgSubjectFields>>]
  ELSE IF \A c \in cs : c.classCode # subjectData.classCode
  THEN [kind |-> "Error",
        error |-> <<"Class with classCode", subjectData.classCode,
                    "not found.">>]
  ELSE IF \E x \in ss : x.subjectCode = subjectData.subjectCode
  THEN [kind |-> "Error",
        error |-> <<"A subject with this subjectCode", "already exists.">>]
  ELSE [kind |-> "ValidationError",
        error |-> <<"Subject validation failed: semester">>]

\* addSubject (controller and service)
AddSubject ==
  \E name \in {"", "n"}, subjectCode \in {"", "S1", "S2"},
     classCode \in {"", "C1", "C9"} :
    LET out == addSubject(subjects, classes,
                          [name |-> name, subjectCode |-> subjectCode,
                           classCode |-> classCode])
    IN /\ Receive([op |-> "addSubject", name |-> name,
                   subjectCode |-> subjectCode, classCode |-> classCode])
       /\ res' = IF out.error[Len(out.error)] = "already exists."
                 THEN [status |-> 409, message |-> out.error, body |-> 0]
                 ELSE IF out.error[Len(out.error)] = "not found."
                 THEN [status |-> 404, message |-> out.error, body |-> 0]
                 ELSE IF out.kind = "ValidationError"
                 THEN [status |-> 400, message |-> out.error, body |-> 0]
                 ELSE [status |-> 500, body |-> 0,
                       message |-> <<"Server error while adding subject.">>]
       /\ UNCHANGED <<ledger, users, teachers, students, classes, subjects,
                      rooms, cameras, oids, inflight, files>>

InitCatalog ==
  /\ files = SeededFiles
  /\ ledger = {}
  /\ users = SeededUsers
  /\ teachers = SeededTeachers
  /\ students = SeededStudents
  /\ classes = CatalogClasses
  /\ subjects = SeededSubjects
  /\ rooms = {}
  /\ cameras = {}
  /\ oids = 20
  /\ req = Idle
  /\ res = Idle
  /\ inflight = <<>>

NextCatalog == AddClass \/ AddSubject \/ NextRequest

SpecCatalog == InitCatalog /\ [][NextCatalog]_vars

-----------------------------------------------------------------------------
(* addRoom when a delete of its rollback fails                             *)

RollbackFailures == {"none", "deleteMany", "findByIdAndDelete"}

\* addRoom (service) with its catch block step by step: Camera.deleteMany
\* for the cameras created, then Room.findByIdAndDelete, then `throw error`.
\* A delete that fails throws out of the catch block: what follows it is not
\* run, and its error is the one the controller gets.
addRoomRollback(rs, cams, roomData, nextId, fail) ==
  LET plain == addRoomService(rs, cams, roomData, nextId)
      savedRoom == [id |-> nextId, name |-> roomData.name,
                    description |-> roomData.description]
      loop == createCameras(cams, roomData.cameras, 1, savedRoom.id, {},
                            nextId + 1)
      entered == (\A r \in rs : r.name # roomData.name) /\ loop.errors # {}
  IN IF entered /\ fail = "deleteMany" /\ loop.createdCameraIds # {}
     THEN [rooms |-> rs \cup {savedRoom}, cameras |-> loop.cameras,
           errors |-> {"deleteMany failed"}, roomId |-> savedRoom.id,
           used |-> plain.used]
     ELSE IF entered /\ fail = "findByIdAndDelete"
     THEN [rooms |-> rs \cup {savedRoom},
           cameras |-> {c \in loop.cameras :
                          c.id \notin loop.createdCameraIds},
           errors |-> {"findByIdAndDelete failed"}, roomId |-> savedRoom.id,
           used |-> plain.used]
     ELSE plain

\* addRoom (controller and service) on a database whose deletes can fail
AddRoomRollback ==
  \E name \in RoomNames \cup {""}, list \in SeqsUpTo(CameraData, MaxCams),
     fail \in RollbackFailures :
    LET roomData == [name |-> name, description |-> "d", cameras |-> list]
        out == addRoomRollback(rooms, cameras, roomData, oids + 1, fail)
    IN /\ Receive([op |-> "addRoom", name |-> name, cameras |-> list,
                   fail |-> fail])
       /\ oids + 1 + Len(list) <= MaxOids
       /\ fail # "none" => out.errors \subseteq {"deleteMany failed",
                                                 "findByIdAndDelete failed"}
                             /\ out.errors # {}
       /\ IF name = ""
          THEN /\ res' = Respond(400, "Missing required field: name.")
               /\ UNCHANGED <<rooms, cameras, oids>>
          ELSE /\ rooms' = out.rooms
               /\ cameras' = out.cameras
               /\ oids' = oids + out.used
               /\ IF out.errors = {}
                  THEN res' = [status |-> 201,
                               message |-> "Room added successfully",
                               body |-> out.roomId]
                  ELSE \E e \in out.errors :
                         res' = IF addRoomStatus(e) = 500
                                THEN Respond(500, "Server error while adding room.")
                                ELSE Respond(addRoomStatus(e), e)
       /\ UNCHANGED <<ledger, users, teachers, students, classes, subjects,
                      inflight, files>>

InitRollback == InitRoom

NextRollback == AddRoomRollback \/ DeleteRoom \/ NextRequest

SpecRollback == InitRollback /\ [][NextRollback]_vars

-----------------------------------------------------------------------------
(* Admin router: getAllTeachers                                            *)

\* variant: the subjects are left as stored, not populated
getAllTeachers_Unpopulated(ts, us, ss, cs) ==
  LET entry(t) ==
        [id |-> t.id, teacherID |-> t.teacherID,
         user |-> {[id |-> u.id, username |-> u.username, email |-> u.email,
                    role |-> u.role, profileId |-> u.profileId] :
                   u \in {v \in us : v.id = t.user}},
         subjects |-> {},
         assignedClasses |-> {c \in cs : c.id \in t.assignedClasses}]
  IN {entry(t) : t \in ts}

\* getAllTeachers (service): every teacher with user, subjects and
\* assignedClasses populated; populate leaves out what no longer exists
getAllTeachers(ts, us, ss, cs) ==
  LET entry(t) ==
        [id |-> t.id, teacherID |-> t.teacherID,
         user |-> {[id |-> u.id, username |-> u.username, email |-> u.email,
                    role |-> u.role, profileId |-> u.profileId] :
                   u \in {v \in us : v.id = t.user}},
         subjects |-> {x \in ss : x.id \in t.subjects},
         assignedClasses |-> {c \in cs : c.id \in t.assignedClasses}]
  IN {entry(t) : t \in ts}

\* getAllTeachers (controller and service)
GetAllTeachers ==
  /\ Receive([op |-> "getAllTeachers"])
  /\ res' = [status |-> 200, message |-> "ok",
             body |-> getAllTeachers(teachers, users, subjects, classes)]
  /\ UNCHANGED <<ledger, users, teachers, students, classes, subjects, rooms,
                 cameras, oids, inflight, files>>

SecondSubject == [id |-> 3, subjectCode |-> "S2", class |-> 1]

InitTeachers ==
  /\ files = [student_pics |-> {}, class_pics |-> {}]
  /\ ledger = {}
  /\ users = {}
  /\ teachers = {}
  /\ students = {}
  /\ classes = SeededClasses
  /\ subjects = SeededSubjects \cup {SecondSubject}
  /\ rooms = {}
  /\ cameras = {}
  /\ oids = Cardinality(SeededClasses) + Cardinality(SeededSubjects) + 1
  /\ req = Idle
  /\ res = Idle
  /\ inflight = <<>>

NextTeachers == AddTeacher \/ GetAllTeachers \/ DeleteSubject \/ NextRequest

SpecTeachers == InitTeachers /\ [][NextTeachers]_vars

-----------------------------------------------------------------------------
(* The middleware in front of the three routers                            *)

Routers == {"admin", "teacher", "student"}

\* the role each router asks for: isAdmin, isTeacher, isStudent
RoleOf(router) ==
  IF router = "admin" THEN "Admin"
  ELSE IF router = "teacher" THEN "Teacher" ELSE "Student"

AdminUser ==
  [id |-> 16, username |-> "root", email |-> "root@x",
   password |-> <<"hash", "pr">>, role |-> "Admin", profileId |-> NoId]

\* the Authorization header: absent (or not a Bearer one), a Bearer token
\* that jwt.verify rejects, a Bearer token that verifies and carries a user id
AuthHeaders ==
  {[kind |-> "none", id |-> NoId], [kind |-> "invalid", id |-> NoId]}
    \cup {[kind |-> "valid", id |-> i] : i \in {3, 7, 16, 17}}

\* variant: a token that verifies is let through whoever it names
protect_AnyUser(us, header) ==
  IF header.kind = "none"
  THEN [status |-> 401, message |-> "Not authorized, no token", user |-> NoId]
  ELSE IF header.kind = "invalid"
  THEN [status |-> 401, message |-> "Not authorized, token failed",
        user |-> NoId]
  ELSE [status |-> 200, message |-> "next", user |-> header.id]

\* protect: 401 unless the token verifies and User.findById finds its user;
\* the error thrown for a user not found is caught by the same try and
\* replaced by 'Not authorized, token failed'
protect(us, header) ==
  IF header.kind = "none"
  THEN [status |-> 401, message |-> "Not authorized, no token", user |-> NoId]
  ELSE IF header.kind = "invalid" \/ \A u \in us : u.id # header.id
  THEN [status |-> 401, message |-> "Not authorized, token failed",
        user |-> NoId]
  ELSE [status |-> 200, message |-> "next", user |-> header.id]

\* isAdmin / isTeacher / isStudent on the user protect attached
roleMiddleware(us, router, user) ==
  IF \E u \in us : u.id = user /\ u.role = RoleOf(router)
  THEN [status |-> 200, message |-> "next"]
  ELSE [status |-> 403,
        message |-> IF router = "admin" THEN "Not authorized as an Admin"
                    ELSE IF router = "teacher"
                    THEN "Not authorized as a Teacher"
                    ELSE "Not authorized as a Student"]

\* a request enters a router: protect, then the role check; it is answered
\* by the error handler or passed on to the route handler
Authorize ==
  \E router \in Routers, header \in AuthHeaders :
    LET p == protect(users, header)
        r == roleMiddleware(users, router, p.user)
        rejected == [op |-> "rejected", router |-> router, header |-> header]
    IN /\ req = Idle
       /\ inflight = <<>>
       /\ IF p.status # 200
          THEN /\ req' = rejected
               /\ res' = Respond(p.status, p.message)
               /\ inflight' = inflight
          ELSE IF r.status # 200
          THEN /\ req' = rejected
               /\ res' = Respond(r.status, r.message)
               /\ inflight' = inflight
          ELSE /\ inflight' = <<[pc |-> "handler", router |-> router,
                                 header |-> header, user |-> p.user]>>
               /\ UNCHANGED <<req, res>>
       /\ UNCHANGED <<ledger, users, teachers, students, classes, subjects,
                      rooms, cameras, oids, files>>

\* the request is at the route handlers of the router
Routed(router) ==
  /\ inflight # <<>>
  /\ inflight[1].pc = "handler"
  /\ inflight[1].router = router

\* getMyClass (controller) with getStudentClassDetails, for req.user
GetMyClass ==
  LET user == CHOOSE u \in users : u.id = inflight[1].user
      student == {x \in students : x.id = user.profileId}
      class == {c \in classes : \E x \in student : c.id = x.class}
  IN /\ Routed("student")
     /\ Receive([op |-> "getMyClass"])
     /\ res' = IF class = {}
               THEN Respond(404, "Student class details not found.")
               ELSE [status |-> 200, message |-> "ok",
                     body |-> {c.id : c \in class}]
     /\ UNCHANGED <<ledger, users, teachers, students, classes, subjects,
                    rooms, cameras, oids, inflight, files>>

\* the response is sent
Finish ==
  /\ inflight # <<>>
  /\ req # Idle
  /\ req' = Idle
  /\ res' = Idle
  /\ inflight' = <<>>
  /\ UNCHANGED <<ledger, users, teachers, students, classes, subjects, rooms,
                 cameras, oids, files>>

InitGuard ==
  /\ files = SeededFiles
  /\ ledger \in SeedLedgers(MaxKept)
  /\ users = SeededUsers \cup {AdminUser}
  /\ teachers = SeededTeachers
  /\ students = SeededStudents
  /\ classes = SeededClasses
  /\ subjects = SeededSubjects
  /\ rooms = {}
  /\ cameras = {}
  /\ oids = 16
  /\ req = Idle
  /\ res = Idle
  /\ inflight = <<>>

NextGuard ==
  \/ Authorize
  \/ (Routed("admin") /\ DeleteSubject)
  \/ (Routed("teacher") /\ GetAttendanceSummary)
  \/ GetMyClass
  \/ Finish
  \/ (inflight = <<>> /\ NextRequest)

SpecGuard == InitGuard /\ [][NextGuard]_vars

-----------------------------------------------------------------------------
(* Specification of the roster while teachers are deleted; the user        *)
(* account of teacher 6 is missing from the start                          *)

InitDismiss ==
  /\ files = SeededFiles
  /\ ledger \in SeedLedgers(MaxKept)
  /\ users = {u \in SeededUsers : u.id # 5}
  /\ teachers = SeededTeachers
  /\ students = SeededStudents
  /\ classes = SeededClasses
  /\ subjects = SeededSubjects
  /\ rooms = {}
  /\ cameras = {}
  /\ oids = SeededOids
  /\ req = Idle
  /\ res = Idle
  /\ inflight = <<>>

NextDismiss == DeleteTeacher \/ DeleteStudentById \/ NextRequest

SpecDismiss == InitDismiss /\ [][NextDismiss]_vars

-----------------------------------------------------------------------------
(* Specification of rooms and cameras under addRoom, editRoom, deleteRoom  *)

\* an empty catalog of a database that has three ObjectIds left to hand out
InitRooms ==
  /\ files = [student_pics |-> {}, class_pics |-> {}]
  /\ ledger = {}
  /\ users = {}
  /\ teachers = {}
  /\ students = {}
  /\ classes = {}
  /\ subjects = {}
  /\ rooms = {}
  /\ cameras = {}
  /\ oids = MaxOids - 3
  /\ req = Idle
  /\ res = Idle
  /\ inflight = <<>>

NextRooms == AddRoomRollback \/ EditRoom \/ DeleteRoom \/ NextRequest

SpecRooms == InitRooms /\ [][NextRooms]_vars

-----------------------------------------------------------------------------
(* Properties of the attendance ledger                                      *)

MarkReachedService(r) ==
  /\ r.op = "markAttendance"
  /\ r.teacherId # NoId /\ r.subjectId # NoId /\ r.date # NoDate /\ r.time # None
  /\ Len(r.attendanceList) > 0

ItemKey(r, i) == <<r.attendanceList[i].id, r.subjectId, NewDate(r.date)>>

Keys(coll) == {IndexKey(x) : x \in coll}

\* C1: a batch with at least one (student, subject, date) triple already in
\* the ledger leaves the stored records as they were, is answered 409, and
\* every item whose triple was not yet present is inserted with its status.
C1_DuplicateBatch ==
  [][(/\ req = Idle
      /\ MarkReachedService(req')
      /\ \E i \in 1..Len(req'.attendanceList) : ItemKey(req', i) \in Keys(ledger))
     => /\ res'.status = 409
        /\ ledger \subseteq ledger'
        /\ \A i \in 1..Len(req'.attendanceList) :
              ItemKey(req', i) \notin Keys(ledger)
              => \E x \in ledger' :
                   /\ IndexKey(x) = ItemKey(req', i)
                   /\ x.status = req'.attendanceList[i].status]_vars

RejectedCamera(cams, list, i) ==
  \/ list[i].cameraId = ""
  \/ list[i].cameraAccessLink = ""
  \/ ExistingCams(cams, list[i]) # {}
  \/ \E j \in 1..(i - 1) :
       /\ list[j].cameraId # "" /\ list[j].cameraAccessLink # ""
       /\ \/ list[j].cameraId = list[i].cameraId
          \/ list[j].cameraAccessLink = list[i].cameraAccessLink

C4_Proposal ==
  (req.op = "checkAttendance" /\ res.status = 200) =>
    LET list == res.body.attendanceList
        roster == {x \in students : x.class = req.classId}
        recognized == Range(req.mlResult.recognized_usns)
    IN /\ \A x \in roster :
            Cardinality({i \in 1..Len(list) : list[i].id = x.id}) = 1
       /\ \A i \in 1..Len(list) :
            \E x \in roster :
              /\ list[i].id = x.id
              /\ list[i].name = x.name
              /\ list[i].rollNo = x.rollNo
              /\ list[i].status = IF x.rollNo \in recognized
                                  THEN "Present" ELSE "Absent"
       /\ \A i, j \in 1..Len(list) : i < j => list[i].id < list[j].id

C4_Witness ==
  /\ req.op = "checkAttendance"
  /\ res.status = 200
  /\ "R9" \in Range(req.mlResult.recognized_usns)
  /\ \E x \in students :
       /\ x.class = req.classId
       /\ x.faceEmbeddings = <<>>
       /\ \E i \in 1..Len(res.body.attendanceList) :
            /\ res.body.attendanceList[i].id = x.id
            /\ res.body.attendanceList[i].status = "Present"
  /\ \E i \in 1..Len(res.body.attendanceList) :
       res.body.attendanceList[i].status = "Absent"

\* C8: of two markAttendance requests of different teachers for the same
\* subject and date that were inserting at the same time and are both answered,
\* exactly one has written records: it is answered 201 and all its rows are
\* stored; the other is answered 409 and none of its rows is stored.
C8_ExactlyOneWrites ==
  (/\ \A p \in Procs : inflight[p].pc = "done"
   /\ \A p \in Procs : inflight[p].concurrent
   /\ inflight[1].req.date = inflight[2].req.date
   /\ inflight[1].req.subjectId = inflight[2].req.subjectId)
  => \E p \in Procs :
       \E q \in Procs \ {p} :
         /\ inflight[p].res.status = 201
         /\ Cardinality(inflight[p].inserted) = Len(inflight[p].req.attendanceList)
         /\ inflight[p].inserted \subseteq {r.id : r \in ledger}
         /\ inflight[q].res.status = 409
         /\ inflight[q].inserted = {}

\* C13: deleteClass on a class that n > 0 subjects reference is answered
\* 400 with a message that names n and changes nothing; a class leaves the
\* collection only in a step before which no subject referenced it.
C13_ReferencedClassStays ==
  [][/\ (/\ req = Idle
         /\ req'.op = "deleteClass"
         /\ \E c \in classes : c.id = req'.id
         /\ \E x \in subjects : x.class = req'.id)
        => /\ res'.status = 400
           /\ res'.message[4] = Cardinality({x \in subjects : x.class = req'.id})
           /\ classes' = classes
           /\ subjects' = subjects
     /\ \A c \in classes \ classes' : \A x \in subjects : x.class # c.id]_vars

C13_Witness ==
  /\ req.op = "deleteClass"
  /\ req.id # NoId
  /\ res.status = 400
  /\ res.message[4] = 2
  /\ \E c \in classes : c.id = req.id
  /\ \E c \in SeededClasses \cup {SecondClass} : c \notin classes

\* C14: the summary has exactly one entry for every student of the class;
\* in each entry present + absent = totalClasses = the number of ledger
\* records of that student and subject, and a student without such a record
\* is listed with 0, 0 and both percentages "0.0".
C14_SummaryTotals ==
  (req.op = "getAttendanceSummary" /\ res.status = 200) =>
    LET list == res.body
        roster == {x \in students : x.class = req.classId}
        rows(id) == {r \in ledger : r.student = id /\ r.subject = req.subjectId}
    IN /\ \A x \in roster :
            Cardinality({i \in 1..Len(list) : list[i].id = x.id}) = 1
       /\ \A i \in 1..Len(list) :
            /\ \E x \in roster : x.id = list[i].id
            /\ list[i].present + list[i].absent = list[i].totalClasses
            /\ list[i].totalClasses = Cardinality(rows(list[i].id))
            /\ rows(list[i].id) = {}
                 => /\ list[i].present = 0
                    /\ list[i].absent = 0
                    /\ list[i].presentPercentage = <<0, 0>>
                    /\ list[i].absentPercentage = <<0, 0>>

C14_Witness ==
  /\ req.op = "getAttendanceSummary"
  /\ res.status = 200
  /\ \E i, j \in 1..Len(res.body) :
       /\ res.body[i].totalClasses = 0
       /\ res.body[i].presentPercentage = <<0, 0>>
       /\ res.body[j].totalClasses = 2
       /\ res.body[j].presentPercentage = <<100, 0>>

\* C15: a checkAttendance call leaves the attendance ledger as it was,
\* whatever the camera and the recognizer return; a record that enters the
\* ledger enters it in a markAttendance call.
C15_CaptureKeepsLedger ==
  [][/\ req'.op = "checkAttendance" => ledger' = ledger
     /\ (\E r \in ledger' : r \notin ledger) => req'.op = "markAttendance"]_vars

C15_Witness ==
  /\ req.op = "checkAttendance"
  /\ res.status = 200
  /\ res.body.stats.students_present > 0
  /\ ledger # {}

\* the steps of the run in progress
StepsDone == IF inflight = <<>> THEN <<>> ELSE inflight[1].steps

\* C16: the steps of a capture run are an initial part of the order camera
\* resolved, snapshot captured, roster loaded, recognizer called, recognition
\* complete, reconciled, each at most once; the recognizer is called only
\* with a roster that has an embedding; a proposal is answered only after the
\* recognizer answered; after a failure the run takes no further step.
C16_OnePass ==
  /\ [](/\ Len(StepsDone) <= Len(CaptureSteps)
        /\ StepsDone = SubSeq(CaptureSteps, 1, Len(StepsDone))
        /\ (\E i \in 1..Len(StepsDone) : StepsDone[i] = "recognizer called")
             => \E x \in students : /\ x.class = req.classId
                                    /\ Len(x.faceEmbeddings) > 0
        /\ (req.op = "checkAttendance" /\ res # Idle /\ res.status = 200)
             => \E i \in 1..Len(StepsDone) :
                  StepsDone[i] = "recognition complete")
  /\ [][(inflight # <<>> /\ inflight[1].pc = "failed") => inflight' = <<>>]_vars

C16_Witness ==
  /\ inflight # <<>>
  /\ inflight[1].pc = "reconciled"
  /\ inflight[1].steps = CaptureSteps
  /\ res.status = 200

\* the step has been taken in the run in progress
Done(step) == \E i \in 1..Len(StepsDone) : StepsDone[i] = step

\* C17: in a run for a class that has students, none of them with a stored
\* embedding, the recognizer is not called and no proposal is produced; once
\* the snapshot has been captured the run ends with status 400.
C17_NoEmbeddingsNoRecognition ==
  (/\ inflight # <<>>
   /\ \E x \in students : x.class = req.classId
   /\ \A x \in students : x.class = req.classId => Len(x.faceEmbeddings) = 0)
    => /\ ~Done("recognizer called")
       /\ inflight[1].pc # "reconciled"
       /\ Done("roster loaded") => (inflight[1].pc = "failed" /\ res.status = 400)
       /\ (inflight[1].pc = "failed" /\ Done("snapshot captured"))
            => res.status = 400

C17_Witness ==
  /\ inflight # <<>>
  /\ inflight[1].pc = "failed"
  /\ inflight[1].steps = SubSeq(CaptureSteps, 1, 3)
  /\ \E x \in students : x.class = req.classId
  /\ \A x \in students : x.class = req.classId => Len(x.faceEmbeddings) = 0
  /\ res.status = 400

\* the camera failure of the request in progress, None if there is none
CameraError == getSnapshotFromCamera(req.roomId, req.snapshot)

MsgUnreachable ==
  <<"Failed to get camera snapshot:", "Camera snapshot URL is unreachable.">>

\* C18: when the room has no camera, the camera has no access link or the
\* snapshot URL cannot be reached, the run fails as a whole: no snapshot, no
\* roster, no recognizer call, no proposal; and the answer of a failed run
\* is the unreachable-camera answer exactly when the camera was unreachable.
C18_CameraFailsClosed ==
  inflight # <<>> =>
    /\ CameraError \in {"No camera found for this room",
                        "Camera access link is not configured",
                        "Camera snapshot URL is unreachable."}
         => /\ ~Done("snapshot captured")
            /\ ~Done("roster loaded")
            /\ ~Done("recognizer called")
            /\ inflight[1].pc \notin {"reconciled", "rosterLoaded",
                                      "recognitionComplete"}
            /\ inflight[1].pc = "failed"
                 => (res.status # 200 /\ res.body = 0)
    /\ inflight[1].pc = "failed"
         => (res.message = MsgUnreachable
               <=> CameraError = "Camera snapshot URL is unreachable.")

C18_Witness ==
  /\ inflight # <<>>
  /\ inflight[1].pc = "failed"
  /\ inflight[1].steps = <<"camera resolved">>
  /\ CameraError = "Camera snapshot URL is unreachable."
  /\ res.message = MsgUnreachable
  /\ res.body = 0

\* C19: a run that fails because the camera or the recognizer cannot be
\* reached is answered with status 502 or 503.
C19_UpstreamStatus ==
  (/\ inflight # <<>>
   /\ inflight[1].pc = "failed"
   /\ \/ CameraError = "Camera snapshot URL is unreachable."
      \/ (Done("recognizer called") /\ req.ml = "unreachable"))
    => res.status \in {502, 503}

\* C20: an editRoom request that supplies several cameras or an array of
\* cameras is rejected, with status 400 and the message that names the
\* unsupported shape unless the room id, the room or its new name was
\* rejected first; no editRoom call adds or removes a camera, and the
\* cameras it changes are at most one, a camera of the room.
C20_EditRoomOneCamera ==
  [][req'.op = "editRoom" =>
       /\ (req'.camera.kind = "array" \/ req'.cameras > 0)
            => /\ res'.status \in {400, 404, 409}
               /\ (res'.status = 400 /\ isValidObjectId(req'.id))
                    => res'.message = <<MsgArrayNotSupported>>
       /\ {c.id : c \in cameras'} = {c.id : c \in cameras}
       /\ Cardinality(cameras' \ cameras) <= 1
       /\ \A c \in cameras' \ cameras : c.room = req'.id]_vars

\* C21: an editRoom call answered with a validation (400) or not-found
\* (404) error leaves the rooms and the cameras as they were before the call.
C21_RejectedEditKeepsRoom ==
  [][(req'.op = "editRoom" /\ res'.status \in {400, 404})
       => (rooms' = rooms /\ cameras' = cameras)]_vars

\* C22: an addClass request without name or classCode, and an addSubject
\* request without name, subjectCode or class code, is answered with status
\* 400 and creates no document.
C22_MissingFieldIs400 ==
  [][(\/ /\ req'.op = "addClass"
         /\ (req'.name = "" \/ req'.classCode = "")
      \/ /\ req'.op = "addSubject"
         /\ (req'.name = "" \/ req'.subjectCode = "" \/ req'.classCode = ""))
       => /\ res'.status = 400
          /\ classes' = classes
          /\ subjects' = subjects]_vars

\* C30: in every checkAttendance response students_present is the number of
\* Present entries of attendanceList, students_absent the number of Absent
\* entries, and the two add up to the size of the roster, whatever the
\* recognizer returned.
C30_StatsMatchProposal ==
  (req.op = "checkAttendance" /\ res.status = 200) =>
    LET list == res.body.attendanceList
        count(status) ==
          Cardinality({i \in 1..Len(list) : list[i].status = status})
    IN /\ res.body.stats.students_present = count("Present")
       /\ res.body.stats.students_absent = count("Absent")
       /\ res.body.stats.students_present + res.body.stats.students_absent
            = Cardinality({x \in students : x.class = req.classId})

\* C5: an update changes a record's status only if the caller is the teacher
\* stored as its recorder; a call by any other teacher on an existing record
\* fails and leaves the ledger as it was.
C5_OnlyRecorderAmends ==
  [][(req = Idle /\ req'.op = "updateAttendanceRecord")
     => /\ \A r \in ledger :
             (\E x \in ledger' : x.id = r.id /\ x.status # r.status)
             => r.teacher = req'.teacherId
        /\ (\E r \in ledger : r.id = req'.recordId /\ r.teacher # req'.teacherId)
             => (res'.status >= 400 /\ ledger' = ledger)]_vars

C5_Witness ==
  /\ req.op = "updateAttendanceRecord"
  /\ res.status = 404
  /\ \E r \in ledger :
       r.id = req.recordId /\ r.teacher # req.teacherId /\ r.status # req.status

\* C6: an update of a record id that is absent and an update of a record that
\* another teacher recorded are answered alike: status 404 with the one
\* message, the ledger untouched.
C6_SameOutcome ==
  [][(/\ req = Idle
      /\ req'.op = "updateAttendanceRecord"
      /\ req'.status \in StatusEnum
      /\ isValidObjectId(req'.recordId)
      /\ \A r \in ledger : r.id = req'.recordId => r.teacher # req'.teacherId)
     => /\ res' = Respond(404, MsgNotFoundOrNoPermission)
        /\ ledger' = ledger]_vars

C6_Witness ==
  /\ req.op = "updateAttendanceRecord"
  /\ req.status \in StatusEnum
  /\ res = Respond(404, MsgNotFoundOrNoPermission)
  /\ \E r \in ledger : r.id = req.recordId /\ r.teacher # req.teacherId
  /\ \E r \in ledger : r.id # req.recordId

\* C7: a stored record stays: after every step a record with the same id,
\* student, subject, date and recorder is still in the ledger.
C7_NeverRemoved ==
  [][\A r \in ledger :
       \E x \in ledger' :
         /\ x.id = r.id /\ x.student = r.student /\ x.subject = r.subject
         /\ x.date = r.date /\ x.teacher = r.teacher]_vars

C7_Witness ==
  /\ req.op = "deleteStudent"
  /\ res.status = 200
  /\ \E r \in ledger : r.student = req.id
  /\ \A x \in students : x.id # req.id

-----------------------------------------------------------------------------
(* Properties of the roster                                                *)

\* C9: every teacher or student profile references an existing identity
\* whose profileId points back to it, and every identity with role Teacher
\* or Student has such a profile, after every completed call, failed calls
\* included.
C9_NoOrphans ==
  /\ \A t \in teachers :
       \E u \in users : u.id = t.user /\ u.profileId = t.id
  /\ \A x \in students :
       \E u \in users : u.id = x.user /\ u.profileId = x.id
  /\ \A u \in users :
       /\ u.role = "Teacher"
            => \E t \in teachers : t.id = u.profileId /\ t.user = u.id
       /\ u.role = "Student"
            => \E x \in students : x.id = u.profileId /\ x.user = u.id

\* the request passes validation and its user is saved
AddTeacherSavesUser(r) ==
  /\ r.op = "addTeacher"
  /\ r.username # ""
  /\ validateSubjectCodes(r.subjects).ok
  /\ validateClassCodes(r.assignedClasses).ok
  /\ UserDuplicateKeys(users, r.username, r.email) = {}
  /\ r.fail # "user"

UserOfTeacher(us, teacherId) ==
  CHOOSE u \in us : \E t \in teachers : t.id = teacherId /\ t.user = u.id

\* the request reaches the profile save after it has saved the identity
EditTeacherSavesUser(r) ==
  /\ r.op = "editTeacher"
  /\ \E t \in teachers : t.id = r.id /\ \E u \in users : u.id = t.user
  /\ r.subjects = <<>>
  /\ r.username # "" \/ r.email # "" \/ r.password # ""
  /\ r.fail # "user"
  /\ LET user == UserOfTeacher(users, r.id)
     IN UserDuplicateKeys(users \ {user},
                          IF r.username # "" THEN r.username ELSE user.username,
                          IF r.email # "" THEN r.email ELSE user.email) = {}

C23_DuplicateIs409 ==
  [][(/\ req'.op = "createStudent"
      /\ req'.file
      /\ req'.classCode \in {c.classCode : c \in classes}
      /\ \/ \E u \in users : u.email = req'.email \/ u.username = req'.username
         \/ \E x \in students : x.rollNo = req'.rollNo)
       => /\ res'.status = 409
          /\ users' = users
          /\ students' = students]_vars

\* C24: an addRoom call that fails and whose rollback delete fails as well
\* is answered with the status of the failure that started the rollback.
C24_OriginalErrorKept ==
  [][(req'.op = "addRoom" /\ req'.name # "" /\ req'.fail # "none")
       => LET original ==
                addRoomService(rooms, cameras,
                               [name |-> req'.name, description |-> "d",
                                cameras |-> req'.cameras], oids + 1).errors
          IN \E e \in original : res'.status = addRoomStatus(e)]_vars

\* C25: a teacher created with two subject codes that exist reads back with
\* exactly the two subjects of those codes, in whichever order the codes
\* were given; and every teacher whose subjects all still exist reads back
\* with exactly those subjects.
C25_SubjectsRoundTrip ==
  LET read == getAllTeachers(teachers, users, subjects, classes)
  IN /\ (req.op = "addTeacher" /\ res.status = 201 /\ Len(req.subjects) = 2)
          => \E e \in read :
               /\ e.id = res.body
               /\ e.subjects = {x \in subjects :
                                  x.subjectCode \in Range(req.subjects)}
               /\ Cardinality(e.subjects) = 2
     /\ (req.op = "getAllTeachers")
          => \A t \in teachers :
               t.subjects \subseteq {x.id : x \in subjects}
                 => \E e \in res.body :
                      /\ e.id = t.id
                      /\ {x.id : x \in e.subjects} = t.subjects

C25_Witness ==
  /\ req.op = "getAllTeachers"
  /\ \E e \in res.body : {x.subjectCode : x \in e.subjects} = {"S1", "S2"}

\* the router a handler is mounted on
RouterOf(op) ==
  IF op = "deleteSubject" THEN "admin"
  ELSE IF op = "getAttendanceSummary" THEN "teacher" ELSE "student"

\* C26: a request is at the handlers of a router only with a token that
\* verifies and names an existing user of the router's role; a handler runs
\* only for such a request; a request without token, with a token that does
\* not verify or that names no user is answered 401, one of another role
\* 403, and neither changes the stored state.
C26_RoleGate ==
  /\ [](inflight # <<>>
          => /\ inflight[1].header.kind = "valid"
             /\ \E u \in users : /\ u.id = inflight[1].header.id
                                 /\ u.role = RoleOf(inflight[1].router))
  /\ [][/\ req'.op \in {"deleteSubject", "getAttendanceSummary", "getMyClass"}
             => Routed(RouterOf(req'.op))
        /\ req'.op = "rejected"
             => /\ res'.status =
                     IF \E u \in users : /\ req'.header.kind = "valid"
                                         /\ u.id = req'.header.id
                     THEN 403 ELSE 401
                /\ \A u \in users :
                     (req'.header.kind = "valid" /\ u.id = req'.header.id)
                       => u.role # RoleOf(req'.router)
                /\ UNCHANGED <<ledger, users, teachers, students, classes,
                               subjects, rooms, cameras, files, inflight>>]_vars

C26_Witness ==
  /\ Routed("admin")
  /\ req.op = "deleteSubject"
  /\ res.status = 200
  /\ subjects = {}

\* C27: deleteTeacher on an existing profile, when no database write fails,
\* answers 200 and leaves neither the profile nor its user account, also when
\* the account was already missing; the account is never removed while the
\* profile stays (the profile is deleted first).
C27_DeleteTeacherCompletes ==
  [][req'.op = "deleteTeacher"
       => /\ \A t \in teachers :
               (t.id = req'.id /\ req'.fail = 0)
                 => /\ res'.status = 200
                    /\ \A x \in teachers' : x.id # t.id
                    /\ \A u \in users' : u.id # t.user
          /\ users' # users => \A x \in teachers' : x.id # req'.id]_vars

C27_Witness ==
  /\ req.op = "deleteTeacher"
  /\ req.id = 6
  /\ req.fail = 0
  /\ res.status = 200
  /\ \A t \in teachers : t.id # 6
  /\ \A u \in users : u.id # 5

\* C28: validateSubjectCodes (as addTeacher calls it) fails exactly when
\* some code of the list names no stored subject, for every list including
\* one that repeats a code, and on success the teacher gets the ids of the
\* subjects the codes name.
C28_CodesResolve ==
  [][(req'.op = "addTeacher" /\ req'.username # "")
       => LET unresolved ==
                {i \in 1..Len(req'.subjects) :
                   \A x \in subjects : x.subjectCode # req'.subjects[i]}
          IN /\ res'.message = "Invalid subject codes" <=> unresolved # {}
             /\ res'.status = 201
                  => \A t \in teachers' \ teachers :
                       t.subjects =
                         {x.id : x \in {y \in subjects :
                            \E i \in 1..Len(req'.subjects) :
                              y.subjectCode = req'.subjects[i]}}]_vars

====
